---- MODULE Spec2Model ----
(***************************************************************************)
(* Model of the retrieval selection and attribution engine of the RAG API  *)
(* (rag-api/enhancedChunking.js, rag-api/server.js).                        *)
(*                                                                         *)
(* Numbers: a vector score is kept in hundredths (0.5 is 50); a rerank     *)
(* score is an integer; a text is kept as its length in characters and the *)
(* set of its whitespace-separated lower-cased words, the only two things  *)
(* the selector reads of it.                                               *)
(***************************************************************************)
EXTENDS Integers, Sequences, FiniteSets, TLC

\* ------------------------------------------------------------------ bounds
MaxPool == 3
MaxPieces == 4
MaxSelected == 3

MaxQueryWords == 3
MaxWide == 27
MaxTier == 12
MaxChunks == 1

\* ------------------------------------------------------------- input sets
Queries == { <<"exit", "width">> }
QueryTypes == { "definition", "yes_no" }
\* A short text without query words, a short text with both, a long text with one.
Texts ==
    { [length |-> 598,  words |-> {}],
      [length |-> 598,  words |-> {"exit", "width"}],
      [length |-> 3400, words |-> {"exit"}] }
VectorScores == { 40, 50, 90 }

\* Fragments a generated answer is put together from: two citation markers,
\* a lower-case look-alike, plain text, a blank and the "Answer:" prefix.
Pieces ==
    { << "[", "A", "]" >>, << "[", "B", "]" >>, << "[", "a", "]" >>,
      << "x" >>, << " " >>, << "A", "n", "s", "w", "e", "r", ":" >> }

Min(a, b) == IF a < b THEN a ELSE b
Max(a, b) == IF a > b THEN a ELSE b

\* ---------------------------------------------------------------- selector
VARIABLES query, vectorResults, queryType, vectorSortedChunks, rerankScores,
          selectedChunks, tokensUsed, rerankScoreSum, stopReason,
          chunksSkipped, chunksReranked, chunksConsidered,
          currentPercentile, currentThreshold, iterationNumber,
          chunksSelectedThisIteration, i, pc, result

selVars == << query, vectorResults, queryType, vectorSortedChunks, rerankScores,
              selectedChunks, tokensUsed, rerankScoreSum, stopReason,
              chunksSkipped, chunksReranked, chunksConsidered,
              currentPercentile, currentThreshold, iterationNumber,
              chunksSelectedThisIteration, i, pc, result >>

\* ------------------------------------------------------------- attribution
\* promptChunks: the selection handed to buildEnhancedPrompt (server.js selectedChunks);
\* apc: the position of the request between prompt assembly and the response.
VARIABLES promptChunks, rawLLMResponse, parsedResponse, llmGuidedSources, enhanced, apc

attrVars == << promptChunks, rawLLMResponse, parsedResponse, llmGuidedSources, enhanced, apc >>

\* ---------------------------------------------------------- classification
\* queryText: the argument of a classifyQuery call, a string kept as the
\* sequence of its characters; classified: what the call returned ("" before).
VARIABLES queryText, classified

classVars == << queryText, classified >>

\* ---------------------------------------------------------------- requests
\* requests: the /api/query requests in progress, each with the locals of its
\* handler invocation; running: the request whose synchronous selector call
\* is on the stack (0 when none is).
VARIABLES requests, running

reqVars == << requests, running >>

\* ----------------------------------------------------------------- uploads
\* uploads: the /api/upload-document-direct requests in progress, each with
\* the locals of its handler invocation; disk: the uploads whose file is in
\* the documents directory; documents: the rows of table documents, the id
\* of a row being its position; points: per document id, the number of its
\* vectors in the vector store; chunkRows: per document id, the number of its
\* rows in table document_chunks.
VARIABLES uploads, disk, documents, points, chunkRows

upVars == << uploads, disk, documents, points, chunkRows >>

vars == << selVars, attrVars, classVars, reqVars, upVars >>

\* What a selector step leaves alone, what an attribution step leaves alone,
\* and what a classification step leaves alone.
nonSelVars == << attrVars, classVars, reqVars, upVars >>
nonAttrVars == << selVars, classVars, reqVars, upVars >>
nonClassVars == << selVars, attrVars, reqVars, upVars >>
nonUpVars == << selVars, attrVars, classVars, reqVars >>

VECTOR_THRESHOLD == 50
percentileStep == 5
StartPercentile == 5
MaxIterations == 20
NearlyFullMargin == 100

\* typeConfig[queryType] || typeConfig.general
TypeConfig(t) ==
    CASE t = "definition"       -> [maxTokens |-> 800,  minTokens |-> 200, retrieveLimit |-> 25]
      [] t = "specific_section" -> [maxTokens |-> 1000, minTokens |-> 300, retrieveLimit |-> 30]
      [] t = "yes_no"           -> [maxTokens |-> 1000, minTokens |-> 300, retrieveLimit |-> 30]
      [] t = "list"             -> [maxTokens |-> 2800, minTokens |-> 700, retrieveLimit |-> 50]
      [] t = "procedure"        -> [maxTokens |-> 2000, minTokens |-> 500, retrieveLimit |-> 40]
      [] t = "analysis"         -> [maxTokens |-> 4000, minTokens |-> 800, retrieveLimit |-> 60]
      [] OTHER                  -> [maxTokens |-> 5000, minTokens |-> 400, retrieveLimit |-> 300]

\* Math.ceil(text.length * 0.25)
estimateTokenCount(text) == (text.length + 3) \div 4

\* Number of entries of the query's word list that occur in the text's word set.
RECURSIVE Overlap(_, _)
Overlap(queryWords, textWords) ==
    IF queryWords = << >> THEN 0
    ELSE (IF Head(queryWords) \in textWords THEN 1 ELSE 0)
         + Overlap(Tail(queryWords), textWords)

\* (overlap / queryWords.length) * 8 - 2; exact for the query lengths used (1, 2, 4, 8).
simulateRerankScore(q, text) == ((Overlap(q, text.words) * 8) \div Len(q)) - 2

\* A rerank score is << >> when the chunk carries none and << s >> otherwise.
\* JavaScript's `x || y` takes y when x is undefined or 0.
Falsy(score) == score = << >> \/ score[1] = 0

\* chunk.rerank_score || this.simulateRerankScore(query, chunk.text)
RerankOrSimulate(q, chunk) ==
    IF Falsy(chunk.rerank_score) THEN simulateRerankScore(q, chunk.text)
    ELSE chunk.rerank_score[1]

\* STEP 1: every chunk gets its rerank score and its index in the input.
AllRerankedChunks(q, pool) ==
    [k \in 1..Len(pool) |->
        [text |-> pool[k].text,
         vector_score |-> pool[k].vector_score,
         rerank_score |-> RerankOrSimulate(q, pool[k]),
         original_index |-> k]]

\* Array.prototype.sort is stable: equal vector scores keep their input order.
RECURSIVE InsertByVector(_, _)
InsertByVector(c, s) ==
    IF s = << >> THEN << c >>
    ELSE IF Head(s).vector_score >= c.vector_score
         THEN << Head(s) >> \o InsertByVector(c, Tail(s))
         ELSE << c >> \o s

VectorSort_InputOrder(chunks) == chunks

\* Lines 199-201: [...allRerankedChunks].sort(by vector_score, descending)
RECURSIVE VectorSort(_)
VectorSort(chunks) ==
    IF chunks = << >> THEN << >>
    ELSE InsertByVector(chunks[Len(chunks)], VectorSort(SubSeq(chunks, 1, Len(chunks) - 1)))

RECURSIVE InsertDesc(_, _)
InsertDesc(x, s) ==
    IF s = << >> THEN << x >>
    ELSE IF Head(s) >= x THEN << Head(s) >> \o InsertDesc(x, Tail(s))
         ELSE << x >> \o s

RECURSIVE SortDesc(_)
SortDesc(s) ==
    IF s = << >> THEN << >>
    ELSE InsertDesc(s[Len(s)], SortDesc(SubSeq(s, 1, Len(s) - 1)))

\* allRerankedChunks.map(c => c.rerank_score).sort((a, b) => b - a)
RerankScoresOf(chunks) == SortDesc([k \in 1..Len(chunks) |-> chunks[k].rerank_score])

\* rerankScores[Math.min(Math.floor((percentile / 100) * n), n - 1)], 0-based
getPercentileThreshold(scores, percentile) ==
    scores[Min((percentile * Len(scores)) \div 100, Len(scores) - 1) + 1]

Config == TypeConfig(queryType)

StopReason(kind, total, max) == [kind |-> kind, total |-> total, max |-> max]

NoResult ==
    [selectedChunks |-> << >>, selectedCount |-> 0, tokenBudget |-> 0, tokensUsed |-> 0,
     avgRerankScore |-> << 0, 1 >>, meetsMinimum |-> FALSE,
     stopReason |-> StopReason("none", 0, 0),
     chunksConsidered |-> 0, chunksSkipped |-> 0, chunksReranked |-> 0]

Candidates ==
    [text : Texts,
     vector_score : VectorScores,
     rerank_score : { << >> }]

Pools == UNION { [1..n -> Candidates] : n \in 1..MaxPool }

NoParse ==
    [answer |-> << >>, sourcesUsed |-> << >>, success |-> FALSE,
     citations_found |-> 0, unique_sources |-> 0]

NoEnhanced == [enhancedAnswer |-> << >>, finalSources |-> << >>]

\* No attribution in progress.
AttrIdle ==
    /\ promptChunks = << >>
    /\ rawLLMResponse = << >>
    /\ parsedResponse = NoParse
    /\ llmGuidedSources = << >>
    /\ enhanced = NoEnhanced
    /\ apc = "idle"

\* No classification in progress.
ClassIdle == queryText = << >> /\ classified = ""

\* No request in progress.
ReqIdle == requests = << >> /\ running = 0

\* No upload in progress, nothing stored.
UploadIdle ==
    /\ uploads = << >>
    /\ disk = {}
    /\ documents = << >>
    /\ points = << >>
    /\ chunkRows = << >>

\* The locals of a selector call before its first statement.
SelLocalsFresh ==
    /\ vectorSortedChunks = << >>
    /\ rerankScores = << >>
    /\ selectedChunks = << >>
    /\ tokensUsed = 0
    /\ rerankScoreSum = 0
    /\ stopReason = StopReason("none", 0, 0)
    /\ chunksSkipped = 0
    /\ chunksReranked = 0
    /\ chunksConsidered = 0
    /\ currentPercentile = StartPercentile
    /\ currentThreshold = 0
    /\ iterationNumber = 0
    /\ chunksSelectedThisIteration = 0
    /\ i = 0
    /\ result = NoResult

SelInit ==
    /\ query \in Queries
    /\ vectorResults \in Pools
    /\ queryType \in QueryTypes
    /\ SelLocalsFresh
    /\ pc = "start"
    /\ AttrIdle
    /\ ClassIdle
    /\ ReqIdle
    /\ UploadIdle

\* Lines 171-227: score all chunks, fix the scan order, initialise the selection.
SelStart ==
    /\ pc = "start"
    /\ LET all == AllRerankedChunks(query, vectorResults) IN
        /\ vectorSortedChunks' = VectorSort(all)
        /\ rerankScores' = RerankScoresOf(all)
        /\ chunksReranked' = Len(all)
        /\ currentThreshold' = getPercentileThreshold(RerankScoresOf(all), StartPercentile)
    /\ selectedChunks' = << >>
    /\ tokensUsed' = 0
    /\ rerankScoreSum' = 0
    /\ stopReason' = StopReason("completed_all_chunks", 0, 0)
    /\ chunksSkipped' = 0
    /\ chunksConsidered' = 0
    /\ currentPercentile' = StartPercentile
    /\ iterationNumber' = 0
    /\ pc' = "while"
    /\ UNCHANGED nonSelVars
    /\ UNCHANGED << query, vectorResults, queryType, chunksSelectedThisIteration, i, result >>

\* Line 230: the loop condition; lines 231-233 when it holds.
LoopEnter ==
    /\ pc = "while"
    /\ tokensUsed < Config.maxTokens /\ currentPercentile <= 100
    /\ iterationNumber' = iterationNumber + 1
    /\ chunksSelectedThisIteration' = 0
    /\ i' = 0
    /\ pc' = IF Len(vectorSortedChunks) > 0 THEN "for" ELSE "after"
    /\ UNCHANGED nonSelVars
    /\ UNCHANGED << query, vectorResults, queryType, vectorSortedChunks, rerankScores,
                    selectedChunks, tokensUsed, rerankScoreSum, stopReason,
                    chunksSkipped, chunksReranked, chunksConsidered,
                    currentPercentile, currentThreshold, result >>

LoopExit ==
    /\ pc = "while"
    /\ ~(tokensUsed < Config.maxTokens /\ currentPercentile <= 100)
    /\ pc' = "ensure"
    /\ UNCHANGED nonSelVars
    /\ UNCHANGED << query, vectorResults, queryType, vectorSortedChunks, rerankScores,
                    selectedChunks, tokensUsed, rerankScoreSum, stopReason,
                    chunksSkipped, chunksReranked, chunksConsidered,
                    currentPercentile, currentThreshold, iterationNumber,
                    chunksSelectedThisIteration, i, result >>

Chunk_FromTheEnd == vectorSortedChunks[Len(vectorSortedChunks) - i]

\* The chunk the inner loop is at (i is 0-based as in the code).
Chunk == vectorSortedChunks[i + 1]
chunkTokens == estimateTokenCount(Chunk.text)

AlreadySelected_Never(chunk) == FALSE

AlreadySelected(chunk) ==
    \E k \in 1..Len(selectedChunks) : selectedChunks[k].original_index = chunk.original_index

\* i++ of the for statement; the loop ends when i reaches the length.
Advance ==
    /\ i' = i + 1
    /\ pc' = IF i + 1 < Len(vectorSortedChunks) THEN "for" ELSE "after"

InFor == pc = "for" /\ i < Len(vectorSortedChunks)

\* Lines 242-245
SkipSelected ==
    /\ InFor
    /\ AlreadySelected(Chunk)
    /\ Advance
    /\ UNCHANGED nonSelVars
    /\ UNCHANGED << query, vectorResults, queryType, vectorSortedChunks, rerankScores,
                    selectedChunks, tokensUsed, rerankScoreSum, stopReason,
                    chunksSkipped, chunksReranked, chunksConsidered,
                    currentPercentile, currentThreshold, iterationNumber,
                    chunksSelectedThisIteration, result >>

\* Lines 262-268
SkipVector ==
    /\ InFor
    /\ ~AlreadySelected(Chunk)
    /\ Chunk.vector_score < VECTOR_THRESHOLD
    /\ chunksConsidered' = chunksConsidered + 1
    /\ chunksSkipped' = chunksSkipped + 1
    /\ Advance
    /\ UNCHANGED nonSelVars
    /\ UNCHANGED << query, vectorResults, queryType, vectorSortedChunks, rerankScores,
                    selectedChunks, tokensUsed, rerankScoreSum, stopReason,
                    chunksReranked, currentPercentile, currentThreshold, iterationNumber,
                    chunksSelectedThisIteration, result >>

\* Lines 270-276
SkipRerank ==
    /\ InFor
    /\ ~AlreadySelected(Chunk)
    /\ ~(Chunk.vector_score < VECTOR_THRESHOLD)
    /\ Chunk.rerank_score < currentThreshold
    /\ chunksConsidered' = chunksConsidered + 1
    /\ chunksSkipped' = chunksSkipped + 1
    /\ Advance
    /\ UNCHANGED nonSelVars
    /\ UNCHANGED << query, vectorResults, queryType, vectorSortedChunks, rerankScores,
                    selectedChunks, tokensUsed, rerankScoreSum, stopReason,
                    chunksReranked, currentPercentile, currentThreshold, iterationNumber,
                    chunksSelectedThisIteration, result >>

PassesScoreGates_NoRerankGate ==
    /\ ~AlreadySelected(Chunk)
    /\ ~(Chunk.vector_score < VECTOR_THRESHOLD)

PassesScoreGates ==
    /\ ~AlreadySelected(Chunk)
    /\ ~(Chunk.vector_score < VECTOR_THRESHOLD)
    /\ ~(Chunk.rerank_score < currentThreshold)

OverBudget_IgnoresChunk == tokensUsed > Config.maxTokens
OverBudget_AgainstGeneral == tokensUsed + chunkTokens > TypeConfig("general").maxTokens

\* Line 279: tokensUsed + chunkTokens > config.maxTokens
OverBudget == tokensUsed + chunkTokens > Config.maxTokens

MinimumMet_Always == TRUE

\* Line 281: tokensUsed >= config.minTokens
MinimumMet == tokensUsed >= Config.minTokens

\* Lines 279-289: over budget with the minimum met; leaves both loops.
BudgetStop ==
    /\ InFor
    /\ PassesScoreGates
    /\ OverBudget
    /\ MinimumMet
    /\ chunksConsidered' = chunksConsidered + 1
    /\ stopReason' = StopReason("token_budget_exceeds", tokensUsed + chunkTokens, Config.maxTokens)
    /\ currentPercentile' = 101
    /\ pc' = "after"
    /\ UNCHANGED nonSelVars
    /\ UNCHANGED << query, vectorResults, queryType, vectorSortedChunks, rerankScores,
                    selectedChunks, tokensUsed, rerankScoreSum,
                    chunksSkipped, chunksReranked, currentThreshold, iterationNumber,
                    chunksSelectedThisIteration, i, result >>

\* Lines 291-295: over budget with the minimum not met; the scan goes on.
SkipLarge ==
    /\ InFor
    /\ PassesScoreGates
    /\ OverBudget
    /\ ~MinimumMet
    /\ chunksConsidered' = chunksConsidered + 1
    /\ chunksSkipped' = chunksSkipped + 1
    /\ Advance
    /\ UNCHANGED nonSelVars
    /\ UNCHANGED << query, vectorResults, queryType, vectorSortedChunks, rerankScores,
                    selectedChunks, tokensUsed, rerankScoreSum, stopReason,
                    chunksReranked, currentPercentile, currentThreshold, iterationNumber,
                    chunksSelectedThisIteration, result >>

\* Lines 298-308
Admit ==
    /\ InFor
    /\ PassesScoreGates
    /\ ~OverBudget
    /\ chunksConsidered' = chunksConsidered + 1
    /\ selectedChunks' = Append(selectedChunks, Chunk)
    /\ tokensUsed' = tokensUsed + chunkTokens
    /\ rerankScoreSum' = rerankScoreSum + Chunk.rerank_score
    /\ chunksSelectedThisIteration' = chunksSelectedThisIteration + 1
    /\ Advance
    /\ UNCHANGED nonSelVars
    /\ UNCHANGED << query, vectorResults, queryType, vectorSortedChunks, rerankScores,
                    stopReason, chunksSkipped, chunksReranked,
                    currentPercentile, currentThreshold, iterationNumber, result >>

\* Lines 311-333: widen the gate after an empty pass, stop when nearly full or
\* at the iteration cap.
\* Line 312
Expand == chunksSelectedThisIteration = 0 /\ tokensUsed < Config.maxTokens

\* Lines 321-326
NearlyFull == chunksSelectedThisIteration > 0 /\ tokensUsed >= Config.maxTokens - NearlyFullMargin

NextPercentile_Resets ==
    IF Expand THEN currentPercentile + percentileStep ELSE StartPercentile

NextPercentile_AfterEveryPass == currentPercentile + percentileStep

\* Line 314: currentPercentile += percentileStep, only after an empty pass
NextPercentile ==
    IF Expand THEN currentPercentile + percentileStep ELSE currentPercentile

IterationCapReached_Never == FALSE
IterationCapReached_AfterTwenty == iterationNumber > MaxIterations

\* Line 330: iterationNumber >= 20
IterationCapReached == iterationNumber >= MaxIterations

AfterPass ==
    /\ pc = "after"
    /\ currentPercentile' = NextPercentile
    /\ currentThreshold' =
          IF Expand /\ NextPercentile <= 100
          THEN getPercentileThreshold(rerankScores, NextPercentile)
          ELSE currentThreshold
    /\ stopReason' =
          IF ~NearlyFull /\ IterationCapReached
          THEN StopReason("max_iterations_reached", 0, 0)
          ELSE IF Expand /\ NextPercentile > 100
               THEN StopReason("exhausted_all_percentiles", 0, 0)
               ELSE stopReason
    /\ pc' = IF NearlyFull \/ IterationCapReached THEN "ensure" ELSE "while"
    /\ UNCHANGED nonSelVars
    /\ UNCHANGED << query, vectorResults, queryType, vectorSortedChunks, rerankScores,
                    selectedChunks, tokensUsed, rerankScoreSum,
                    chunksSkipped, chunksReranked, chunksConsidered, iterationNumber,
                    chunksSelectedThisIteration, i, result >>

NothingAdmitted_Never == FALSE

\* Line 337: selectedChunks.length === 0 && vectorSortedChunks.length > 0
NothingAdmitted == Len(selectedChunks) = 0 /\ Len(vectorSortedChunks) > 0

\* Lines 336-344: nothing admitted, take the first chunk of the vector order.
ForceAdmit ==
    /\ pc = "ensure"
    /\ NothingAdmitted
    /\ LET bestChunk == vectorSortedChunks[1]
           score == IF bestChunk.rerank_score = 0
                    THEN simulateRerankScore(query, bestChunk.text)
                    ELSE bestChunk.rerank_score
           forced == [bestChunk EXCEPT !.rerank_score = score]
       IN /\ selectedChunks' = << forced >>
          /\ vectorSortedChunks' = [vectorSortedChunks EXCEPT ![1] = forced]
          /\ tokensUsed' = estimateTokenCount(bestChunk.text)
          /\ rerankScoreSum' = score
    /\ chunksReranked' = chunksReranked + 1
    /\ pc' = "result"
    /\ UNCHANGED nonSelVars
    /\ UNCHANGED << query, vectorResults, queryType, rerankScores, stopReason,
                    chunksSkipped, chunksConsidered,
                    currentPercentile, currentThreshold, iterationNumber,
                    chunksSelectedThisIteration, i, result >>

NoForce ==
    /\ pc = "ensure"
    /\ ~NothingAdmitted
    /\ pc' = "result"
    /\ UNCHANGED nonSelVars
    /\ UNCHANGED << query, vectorResults, queryType, vectorSortedChunks, rerankScores,
                    selectedChunks, tokensUsed, rerankScoreSum, stopReason,
                    chunksSkipped, chunksReranked, chunksConsidered,
                    currentPercentile, currentThreshold, iterationNumber,
                    chunksSelectedThisIteration, i, result >>

\* Lines 346-364
Return ==
    /\ pc = "result"
    /\ result' =
          [selectedChunks |-> selectedChunks,
           selectedCount |-> Len(selectedChunks),
           tokenBudget |-> Config.maxTokens,
           tokensUsed |-> tokensUsed,
           avgRerankScore |-> IF Len(selectedChunks) > 0
                              THEN << rerankScoreSum, Len(selectedChunks) >>
                              ELSE << 0, 1 >>,
           meetsMinimum |-> tokensUsed >= Config.minTokens,
           stopReason |-> stopReason,
           chunksConsidered |-> chunksConsidered,
           chunksSkipped |-> chunksSkipped,
           chunksReranked |-> chunksReranked]
    /\ pc' = "done"
    /\ UNCHANGED nonSelVars
    /\ UNCHANGED << query, vectorResults, queryType, vectorSortedChunks, rerankScores,
                    selectedChunks, tokensUsed, rerankScoreSum, stopReason,
                    chunksSkipped, chunksReranked, chunksConsidered,
                    currentPercentile, currentThreshold, iterationNumber,
                    chunksSelectedThisIteration, i >>

SelNext ==
    \/ SelStart
    \/ LoopEnter
    \/ LoopExit
    \/ SkipSelected
    \/ SkipVector
    \/ SkipRerank
    \/ BudgetStop
    \/ SkipLarge
    \/ Admit
    \/ AfterPass
    \/ ForceAdmit
    \/ NoForce
    \/ Return

SelSpec == SelInit /\ [][SelNext]_vars

\* Candidates that arrive with a rerank score (0, negative, positive) next to
\* one without, with texts of 100, 150 and 900 estimated tokens.
ScoredCandidates ==
    { [text |-> [length |-> 598,  words |-> {"exit", "width"}], vector_score |-> 90, rerank_score |-> << 0 >>],
      [text |-> [length |-> 3600, words |-> {"exit"}],          vector_score |-> 90, rerank_score |-> << >>],
      [text |-> [length |-> 400,  words |-> {}],                vector_score |-> 50, rerank_score |-> << -1 >>],
      [text |-> [length |-> 598,  words |-> {}],                vector_score |-> 40, rerank_score |-> << 3 >>],
      [text |-> [length |-> 400,  words |-> {}],                vector_score |-> 90, rerank_score |-> << 7 >>] }

ScoredPools == UNION { [1..n -> ScoredCandidates] : n \in 1..MaxPool }

\* n candidates of 10 estimated tokens each, all above the vector gate, with
\* the rerank scores n, n-1, .., 1.
TierPool(n) ==
    [k \in 1..n |->
        [text |-> [length |-> 40, words |-> {}], vector_score |-> 90,
         rerank_score |-> << n + 1 - k >>]]

TierPools == { TierPool(n) : n \in 1..MaxTier }

\* The selector called with candidates that carry rerank scores, and with
\* long pools of small candidates.
ScoredInit ==
    /\ query \in Queries
    /\ vectorResults \in ScoredPools \cup TierPools
    /\ queryType \in QueryTypes
    /\ SelLocalsFresh
    /\ pc = "start"
    /\ AttrIdle
    /\ ClassIdle
    /\ ReqIdle
    /\ UploadIdle

ScoredSpec == ScoredInit /\ [][SelNext]_vars

\* ------------------------------------------------- prompt labels and parsing
UpperLetters ==
    << "A", "B", "C", "D", "E", "F", "G", "H", "I", "J", "K", "L", "M",
       "N", "O", "P", "Q", "R", "S", "T", "U", "V", "W", "X", "Y", "Z" >>
LowerLetters ==
    << "a", "b", "c", "d", "e", "f", "g", "h", "i", "j", "k", "l", "m",
       "n", "o", "p", "q", "r", "s", "t", "u", "v", "w", "x", "y", "z" >>
\* The characters that follow "Z" in the character code order (codes 91-96).
AfterZ == << "[", "backslash", "]", "^", "_", "backtick" >>
DigitChars == << "0", "1", "2", "3", "4", "5", "6", "7", "8", "9" >>

\* String.fromCharCode(code) for the codes 65..122
fromCharCode(code) == (UpperLetters \o AfterZ \o LowerLetters)[code - 64]

\* [A-Z]
IsUpper(c) == \E k \in 1..26 : UpperLetters[k] = c

\* The upper-case form of a character (the i flag of the prefix pattern).
toUpperCase(c) ==
    IF \E k \in 1..26 : LowerLetters[k] = c
    THEN UpperLetters[CHOOSE k \in 1..26 : LowerLetters[k] = c]
    ELSE c

\* \s
IsSpace(c) == c \in { " ", "\t", "\n" }

RECURSIVE TrimStart(_)
TrimStart(s) ==
    IF s # << >> /\ IsSpace(Head(s)) THEN TrimStart(Tail(s)) ELSE s

RECURSIVE TrimEnd(_)
TrimEnd(s) ==
    IF s # << >> /\ IsSpace(s[Len(s)]) THEN TrimEnd(SubSeq(s, 1, Len(s) - 1)) ELSE s

\* String.prototype.trim
Trim(s) == TrimEnd(TrimStart(s))

AnswerPrefix == << "A", "N", "S", "W", "E", "R", ":" >>

StripAnswerPrefix_CaseSensitive(s) ==
    IF Len(s) >= 7 /\ SubSeq(s, 1, 7) = AnswerPrefix
    THEN TrimStart(SubSeq(s, 8, Len(s)))
    ELSE s

\* llmResponse.replace(/^ANSWER:\s*/i, '')
StripAnswerPrefix(s) ==
    IF Len(s) >= 7 /\ \A k \in 1..7 : toUpperCase(s[k]) = AnswerPrefix[k]
    THEN TrimStart(SubSeq(s, 8, Len(s)))
    ELSE s

\* /\[([A-Z])\]/ matches at position k
MarkerAt(s, k) ==
    /\ k + 2 <= Len(s)
    /\ s[k] = "["
    /\ IsUpper(s[k + 1])
    /\ s[k + 2] = "]"

\* answer.match(/\[([A-Z])\]/g), each match reduced to its letter (line 418)
RECURSIVE MatchMarkers(_, _)
MatchMarkers(s, k) ==
    IF k > Len(s) THEN << >>
    ELSE IF MarkerAt(s, k) THEN << s[k + 1] >> \o MatchMarkers(s, k + 3)
         ELSE MatchMarkers(s, k + 1)

Range(s) == { s[k] : k \in 1..Len(s) }

Unique_KeepAll(s) == s

\* [...new Set(list)]: the first occurrence of each element, in order
RECURSIVE Unique(_)
Unique(s) ==
    IF s = << >> THEN << >>
    ELSE LET front == Unique(SubSeq(s, 1, Len(s) - 1)) IN
         IF s[Len(s)] \in Range(front) THEN front ELSE Append(front, s[Len(s)])

\* PromptEnhancer.parseLLMResponse
parseLLMResponse(llmResponse) ==
    LET answer == Trim(StripAnswerPrefix(llmResponse))
        markerMatches == MatchMarkers(answer, 1)
        sourcesUsed == Unique(markerMatches)
    IN [answer |-> answer,
        sourcesUsed |-> sourcesUsed,
        success |-> TRUE,
        citations_found |-> Len(markerMatches),
        unique_sources |-> Len(sourcesUsed)]

\* ------------------------------------------------------------- attribution
\* JavaScript's `x || y` on strings: y when x is empty (here: null).
OrElse(x, y) == IF x = "" THEN y ELSE x

\* chunk.text.substring(0, 200) + (chunk.text.length > 200 ? '...' : '')
Excerpt(text) ==
    [of |-> text.id, length |-> Min(text.length, 200), ellipsis |-> text.length > 200]

\* Lines 1198-1205
SourceOf(chunk, label) ==
    [document |-> chunk.metadata.document,
     document_id |-> chunk.metadata.db_document_id,
     page |-> OrElse(chunk.metadata.page_number, "N/A"),
     section |-> OrElse(chunk.metadata.section, "N/A"),
     excerpt |-> Excerpt(chunk.text),
     label |-> label]

\* selectedChunks.find(c => c.metadata.label === label): index of the first, 0 if none
FindByLabel(selected, label) ==
    LET hits == { k \in 1..Len(selected) : selected[k].metadata.label = label } IN
    IF hits = {} THEN 0 ELSE CHOOSE k \in hits : \A j \in hits : k <= j

RECURSIVE buildLLMGuidedAttribution_StopsAtMissing(_, _)
buildLLMGuidedAttribution_StopsAtMissing(selected, sourcesUsed) ==
    IF sourcesUsed = << >> THEN << >>
    ELSE LET k == FindByLabel(selected, Head(sourcesUsed)) IN
         IF k = 0 THEN << >>
         ELSE << SourceOf(selected[k], Head(sourcesUsed)) >>
              \o buildLLMGuidedAttribution_StopsAtMissing(selected, Tail(sourcesUsed))

\* server.js buildLLMGuidedAttribution
RECURSIVE buildLLMGuidedAttribution(_, _)
buildLLMGuidedAttribution(selected, sourcesUsed) ==
    IF sourcesUsed = << >> THEN << >>
    ELSE LET k == FindByLabel(selected, Head(sourcesUsed))
             rest == buildLLMGuidedAttribution(selected, Tail(sourcesUsed))
         IN IF k = 0 THEN rest
            ELSE << SourceOf(selected[k], Head(sourcesUsed)) >> \o rest

\* The decimal digits of a natural number (template literal `${index + 1}`).
RECURSIVE Digits(_)
Digits(n) ==
    IF n < 10 THEN << DigitChars[n + 1] >>
    ELSE Digits(n \div 10) \o << DigitChars[(n % 10) + 1] >>

\* `[${index + 1}]`
NumberRef(n) == << "[" >> \o Digits(n) \o << "]" >>

ReplaceAll_FirstOnly(s, pattern, replacement) ==
    IF \E k \in 1..Len(s) : SubSeq(s, k, k + Len(pattern) - 1) = pattern
    THEN LET k == CHOOSE k \in 1..Len(s) :
                    /\ SubSeq(s, k, k + Len(pattern) - 1) = pattern
                    /\ \A j \in 1..(k - 1) : SubSeq(s, j, j + Len(pattern) - 1) # pattern
         IN SubSeq(s, 1, k - 1) \o replacement \o SubSeq(s, k + Len(pattern), Len(s))
    ELSE s

\* enhancedAnswer.replace(new RegExp(`\\[${label}\\]`, 'g'), numberRef): every
\* occurrence of the literal pattern, left to right
RECURSIVE ReplaceAll(_, _, _)
ReplaceAll(s, pattern, replacement) ==
    IF Len(s) < Len(pattern) THEN s
    ELSE IF SubSeq(s, 1, Len(pattern)) = pattern
         THEN replacement \o ReplaceAll(SubSeq(s, Len(pattern) + 1, Len(s)), pattern, replacement)
         ELSE << Head(s) >> \o ReplaceAll(Tail(s), pattern, replacement)

\* The forEach of lines 1228-1243 from source number `index` (0-based) on.
RECURSIVE ReplaceLabels(_, _, _)
ReplaceLabels(answer, sources, index) ==
    IF index >= Len(sources) THEN answer
    ELSE ReplaceLabels(
            ReplaceAll(answer, << "[", sources[index + 1].label, "]" >>, NumberRef(index + 1)),
            sources, index + 1)

\* server.js enhanceAnswerWithReferences
enhanceAnswerWithReferences(answer, sources) ==
    IF Len(sources) = 0
    THEN [enhancedAnswer |-> answer, finalSources |-> << >>]
    ELSE [enhancedAnswer |-> ReplaceLabels(answer, sources, 0),
          finalSources |->
              [k \in 1..Len(sources) |->
                  [reference |-> NumberRef(k),
                   document |-> sources[k].document,
                   document_id |-> sources[k].document_id,
                   page |-> sources[k].page,
                   section |-> sources[k].section,
                   excerpt |-> sources[k].excerpt]]]

\* The k-th chunk of a selection: chunks differ in document, length and metadata.
SelectedChunk(k) ==
    [text |-> [id |-> k, length |-> 150 * k],
     metadata |-> [document |-> k,
                   db_document_id |-> 100 + k,
                   page_number |-> IF k % 2 = 0 THEN "" ELSE "7",
                   section |-> IF k % 3 = 0 THEN "" ELSE "4.2",
                   label |-> ""]]

Selections == { [k \in 1..n |-> SelectedChunk(k)] : n \in 1..MaxSelected }

RECURSIVE Flatten(_)
Flatten(pieces) ==
    IF pieces = << >> THEN << >> ELSE Head(pieces) \o Flatten(Tail(pieces))

Answers == { Flatten(ps) : ps \in UNION { [1..n -> Pieces] : n \in 0..MaxPieces } }

AttrInit ==
    /\ promptChunks \in Selections
    /\ rawLLMResponse \in Answers
    /\ parsedResponse = NoParse
    /\ llmGuidedSources = << >>
    /\ enhanced = NoEnhanced
    /\ apc = "assemble"
    /\ query = << >>
    /\ vectorResults = << >>
    /\ queryType = "general"
    /\ SelLocalsFresh
    /\ pc = "idle"
    /\ ClassIdle
    /\ ReqIdle
    /\ UploadIdle

\* PromptEnhancer.buildEnhancedPrompt, lines 396-399: the i-th chunk gets the
\* i-th letter, stored in its metadata.
BuildEnhancedPrompt ==
    /\ apc = "assemble"
    /\ promptChunks' = [k \in 1..Len(promptChunks) |->
                    [promptChunks[k] EXCEPT !.metadata.label = fromCharCode(65 + (k - 1))]]
    /\ apc' = "parse"
    /\ UNCHANGED << rawLLMResponse, parsedResponse, llmGuidedSources, enhanced >>
    /\ UNCHANGED nonAttrVars

\* server.js line 1448
ParseLLMResponse ==
    /\ apc = "parse"
    /\ parsedResponse' = parseLLMResponse(rawLLMResponse)
    /\ apc' = "attribute"
    /\ UNCHANGED << promptChunks, rawLLMResponse, llmGuidedSources, enhanced >>
    /\ UNCHANGED nonAttrVars

\* server.js line 1468
BuildLLMGuidedAttribution ==
    /\ apc = "attribute"
    /\ llmGuidedSources' = buildLLMGuidedAttribution(promptChunks, parsedResponse.sourcesUsed)
    /\ apc' = "enhance"
    /\ UNCHANGED << promptChunks, rawLLMResponse, parsedResponse, enhanced >>
    /\ UNCHANGED nonAttrVars

\* server.js line 1506
EnhanceAnswerWithReferences ==
    /\ apc = "enhance"
    /\ enhanced' = enhanceAnswerWithReferences(parsedResponse.answer, llmGuidedSources)
    /\ apc' = "done"
    /\ UNCHANGED << promptChunks, rawLLMResponse, parsedResponse, llmGuidedSources >>
    /\ UNCHANGED nonAttrVars

AttrNext ==
    \/ BuildEnhancedPrompt
    \/ ParseLLMResponse
    \/ BuildLLMGuidedAttribution
    \/ EnhanceAnswerWithReferences

AttrSpec == AttrInit /\ [][AttrNext]_vars


\* ------------------------------------------------------------ classifyQuery
\* Words and phrases a query string is put together from (joined by single
\* blanks): one that triggers each rule, neutral ones, and two that begin like
\* a keyword without being one.
QueryWords ==
    { << "W", "h", "a", "t", " ", "i", "s" >>,
      << "D", "e", "f", "i", "n", "e" >>,
      << "S", "e", "c", "t", "i", "o", "n" >>,
      << "4" >>,
      << "L", "i", "s", "t" >>,
      << "a", "l", "l" >>,
      << "I", "s" >>,
      << "H", "o", "w", " ", "t", "o" >>,
      << "e", "x", "i", "t" >>,
      << "I", "s", "l", "a", "n", "d" >>,
      << "L", "i", "s", "t", "i", "n", "g" >> }

RECURSIVE JoinWords(_)
JoinWords(ws) ==
    IF ws = << >> THEN << >>
    ELSE IF Len(ws) = 1 THEN Head(ws)
    ELSE Head(ws) \o << " " >> \o JoinWords(Tail(ws))

QueryStrings == { JoinWords(ws) : ws \in UNION { [1..n -> QueryWords] : n \in 1..MaxQueryWords } }

\* The i flag: a pattern letter matches either case of it.
UpperOf(s) == [k \in 1..Len(s) |-> toUpperCase(s[k])]

\* \w of a regular expression
IsWordChar(c) ==
    \/ \E k \in 1..26 : UpperLetters[k] = c \/ LowerLetters[k] = c
    \/ \E k \in 1..10 : DigitChars[k] = c
    \/ c = "_"

\* [A-Z0-9] under the i flag
IsAlnum(c) ==
    \/ \E k \in 1..26 : UpperLetters[k] = c \/ LowerLetters[k] = c
    \/ \E k \in 1..10 : DigitChars[k] = c

\* \b between the characters k and k + 1 of s (k = 0: before the first one)
BoundaryAt(s, k) ==
    (k >= 1 /\ k <= Len(s) /\ IsWordChar(s[k]))
        # (k + 1 >= 1 /\ k + 1 <= Len(s) /\ IsWordChar(s[k + 1]))

\* ^literal
StartsWith(s, literal) ==
    Len(s) >= Len(literal) /\ SubSeq(s, 1, Len(literal)) = literal

\* the literal at the characters k .. k + Len(literal) - 1 of s
MatchesAt(s, k, literal) ==
    /\ k >= 1 /\ k + Len(literal) - 1 <= Len(s)
    /\ SubSeq(s, k, k + Len(literal) - 1) = literal

\* /^(what is|define|definition of)/i
DefinitionWords ==
    { << "W", "H", "A", "T", " ", "I", "S" >>,
      << "D", "E", "F", "I", "N", "E" >>,
      << "D", "E", "F", "I", "N", "I", "T", "I", "O", "N", " ", "O", "F" >> }
DefinitionRule(q) == \E w \in DefinitionWords : StartsWith(UpperOf(q), w)

\* /^(section|appendix|chapter)\s+[A-Z0-9]/i
SectionWords ==
    { << "S", "E", "C", "T", "I", "O", "N" >>,
      << "A", "P", "P", "E", "N", "D", "I", "X" >>,
      << "C", "H", "A", "P", "T", "E", "R" >> }
SectionRule(q) ==
    \E w \in SectionWords :
        /\ StartsWith(UpperOf(q), w)
        /\ \E n \in 1..Len(q) :
              /\ Len(w) + n + 1 <= Len(q)
              /\ \A k \in (Len(w) + 1)..(Len(w) + n) : IsSpace(q[k])
              /\ IsAlnum(q[Len(w) + n + 1])

\* /\b(list|all|enumerate|requirements for)\b/i
ListWords ==
    { << "L", "I", "S", "T" >>,
      << "A", "L", "L" >>,
      << "E", "N", "U", "M", "E", "R", "A", "T", "E" >>,
      << "R", "E", "Q", "U", "I", "R", "E", "M", "E", "N", "T", "S", " ", "F", "O", "R" >> }
ListRule(q) ==
    \E w \in ListWords : \E k \in 1..Len(q) :
        /\ MatchesAt(UpperOf(q), k, w)
        /\ BoundaryAt(q, k - 1)
        /\ BoundaryAt(q, k + Len(w) - 1)

\* /^(is|are|does|must|can|should|do I need)\b/i
YesNoWords ==
    { << "I", "S" >>,
      << "A", "R", "E" >>,
      << "D", "O", "E", "S" >>,
      << "M", "U", "S", "T" >>,
      << "C", "A", "N" >>,
      << "S", "H", "O", "U", "L", "D" >>,
      << "D", "O", " ", "I", " ", "N", "E", "E", "D" >> }
YesNoRule(q) ==
    \E w \in YesNoWords : StartsWith(UpperOf(q), w) /\ BoundaryAt(q, Len(w))

\* /^(how to|how do|procedure|steps)/i
ProcedureWords ==
    { << "H", "O", "W", " ", "T", "O" >>,
      << "H", "O", "W", " ", "D", "O" >>,
      << "P", "R", "O", "C", "E", "D", "U", "R", "E" >>,
      << "S", "T", "E", "P", "S" >> }
ProcedureRule(q) == \E w \in ProcedureWords : StartsWith(UpperOf(q), w)

classifyQuery_YesNoBeforeList(q) ==
    IF DefinitionRule(q) THEN "definition"
    ELSE IF SectionRule(q) THEN "specific_section"
    ELSE IF YesNoRule(q) THEN "yes_no"
    ELSE IF ListRule(q) THEN "list"
    ELSE IF ProcedureRule(q) THEN "procedure"
    ELSE "general"

\* QueryClassifier.classifyQuery, lines 77-106
classifyQuery(q) ==
    IF DefinitionRule(q) THEN "definition"
    ELSE IF SectionRule(q) THEN "specific_section"
    ELSE IF ListRule(q) THEN "list"
    ELSE IF YesNoRule(q) THEN "yes_no"
    ELSE IF ProcedureRule(q) THEN "procedure"
    ELSE "general"

ClassInit ==
    /\ queryText \in QueryStrings
    /\ classified = ""
    /\ query = << >>
    /\ vectorResults = << >>
    /\ queryType = "general"
    /\ SelLocalsFresh
    /\ pc = "idle"
    /\ AttrIdle
    /\ ReqIdle
    /\ UploadIdle

\* A call of classifyQuery on the query string.
ClassifyQuery ==
    /\ classified = ""
    /\ classified' = classifyQuery(queryText)
    /\ UNCHANGED queryText
    /\ UNCHANGED nonClassVars

ClassNext == ClassifyQuery

ClassSpec == ClassInit /\ [][ClassNext]_vars


\* ------------------------------------------------------- POST /api/query
\* The words of the request queries and of the candidate texts.
WordExit == << "e", "x", "i", "t" >>
WordWidth == << "w", "i", "d", "t", "h" >>
WordWhat == << "w", "h", "a", "t" >>
WordIs == << "i", "s" >>

\* "What is exit width" is a definition query, "exit width" a general one.
DefinitionQuery == << "W", "h", "a", "t", " ", "i", "s", " ", "e", "x", "i", "t", " ", "w", "i", "d", "t", "h" >>
GeneralQuery == << "e", "x", "i", "t", " ", "w", "i", "d", "t", "h" >>

\* Candidate texts: a tiny one, a short one, a long one (both with query words)
\* and a short one without any.
TinyText == [length |-> 100, words |-> { WordExit, WordWidth, WordWhat, WordIs }]
ShortText == [length |-> 598, words |-> { WordExit, WordWidth, WordWhat, WordIs }]
LongText == [length |-> 3400, words |-> { WordExit, WordWidth }]
OtherText == [length |-> 598, words |-> {}]

Hit(text, score) == [text |-> text, vector_score |-> score, rerank_score |-> << >>]

\* What the vector search can return: nothing, a mixed pool, a single long
\* chunk, and pools of n tiny chunks.
MixedPool == << Hit(ShortText, 90), Hit(ShortText, 80), Hit(LongText, 70), Hit(OtherText, 40) >>
LongPool == << Hit(LongText, 90) >>
UniformPool(n) == [k \in 1..n |-> Hit(TinyText, 90)]
WidePools == { UniformPool(n) : n \in 1..MaxWide }

\* What the generation service can answer.
CitingAnswer == << "[", "A", "]", "x", "[", "B", "]" >>
PlainAnswer == << "x" >>

\* String.prototype.toLowerCase on one character
toLowerCase(c) ==
    IF \E k \in 1..26 : UpperLetters[k] = c
    THEN LowerLetters[CHOOSE k \in 1..26 : UpperLetters[k] = c]
    ELSE c

LowerOf(s) == [k \in 1..Len(s) |-> toLowerCase(s[k])]

RECURSIVE DropSpaces(_)
DropSpaces(s) ==
    IF s # << >> /\ IsSpace(Head(s)) THEN DropSpaces(Tail(s)) ELSE s

\* String.prototype.split(/\s+/)
RECURSIVE SplitWords(_)
SplitWords(s) ==
    IF s = << >> THEN << << >> >>
    ELSE IF IsSpace(Head(s)) THEN << << >> >> \o SplitWords(DropSpaces(s))
    ELSE LET rest == SplitWords(Tail(s)) IN
         << << Head(s) >> \o Head(rest) >> \o Tail(rest)

\* What the collaborators do for one request: the health probe, the
\* embedding call, the vector search, the chunk lookup and the completion call.
World(health, embed, searchOk, pool, db, llmOk, content) ==
    [health |-> health, embed |-> embed,
     search |-> [ok |-> searchOk, result |-> pool], db |-> db,
     llm |-> [ok |-> llmOk, content |-> content]]

\* Every failure point, and every pool with every outcome of the completion call.
WorldsOver(pools, answers) ==
    { World(TRUE, FALSE, TRUE, << >>, TRUE, TRUE, PlainAnswer),
      World(TRUE, TRUE, FALSE, << >>, TRUE, TRUE, PlainAnswer),
      World(TRUE, TRUE, TRUE, << >>, TRUE, TRUE, PlainAnswer) }
    \cup { World(FALSE, TRUE, TRUE, p, TRUE, FALSE, << >>) : p \in pools }
    \cup { World(TRUE, TRUE, TRUE, p, FALSE, TRUE, PlainAnswer) : p \in pools }
    \cup { World(TRUE, TRUE, TRUE, p, TRUE, FALSE, << >>) : p \in pools }
    \cup { World(TRUE, TRUE, TRUE, p, TRUE, TRUE, a) :
               p \in pools, a \in answers }

\* A request as it arrives.
NewRequest(q, w) ==
    [query |-> q, world |-> w, stage |-> "received", queryType |-> "",
     searchResults |-> << >>, selectedChunks |-> << >>,
     trace |-> << >>, responses |-> << >>]

\* The selector is not running: its locals do not exist.
SelIdle ==
    /\ query = << >>
    /\ vectorResults = << >>
    /\ queryType = "general"
    /\ SelLocalsFresh
    /\ pc = "idle"

ReqInit ==
    /\ requests \in
          [1..1 -> { NewRequest(q, w) :
                        q \in { DefinitionQuery, GeneralQuery },
                        w \in WorldsOver({ MixedPool, LongPool } \cup WidePools,
                                        { CitingAnswer, PlainAnswer }) }
                  \cup { NewRequest(<< >>, World(TRUE, TRUE, TRUE, << >>, TRUE, TRUE, PlainAnswer)) }]
    /\ running = 0
    /\ SelIdle
    /\ AttrIdle
    /\ ClassIdle
    /\ UploadIdle

\* retrievalLimits[queryType] || retrievalLimits.general (lines 1307-1316)
retrievalLimit(t) ==
    CASE t = "definition"       -> 25
      [] t = "specific_section" -> 30
      [] t = "yes_no"           -> 30
      [] t = "list"             -> 50
      [] t = "procedure"        -> 40
      [] t = "analysis"         -> 60
      [] OTHER                  -> 300

\* The vector search returns at most `limit` points.
Take(s, n) == SubSeq(s, 1, Min(n, Len(s)))

\* The bodies the handler can send.
Response(status, success, kind, q, t, answer, analyzed, used, sources) ==
    [status |-> status, success |-> success, kind |-> kind, query |-> q,
     query_type |-> t, answer |-> answer, chunks_analyzed |-> analyzed,
     chunks_used |-> used, sources |-> sources]

\* Lines 1256-1261, 1268-1273, 1559-1565: the error bodies
ErrorResponse(status, kind) == Response(status, FALSE, kind, << >>, "", << >>, 0, 0, << >>)

\* Lines 1338-1346
NoResultsText == << "no relevant information" >>
NoResultsResponse(q) == Response(200, TRUE, "no_results", q, "", NoResultsText, 0, 0, << >>)

\* Lines 1512-1526
SuccessResponse(q, t, answer, analyzed, used, sources) ==
    Response(200, TRUE, "success", q, t, answer, analyzed, used, sources)

Respond_NoReturn(r, response) ==
    requests' = [requests EXCEPT ![r] =
                    [@ EXCEPT !.responses = Append(@, response),
                              !.trace = Append(@, "RESPOND")]]

\* res.json / res.status(..).json: the response is sent and the handler returns.
Respond(r, response) ==
    requests' = [requests EXCEPT ![r] =
                    [@ EXCEPT !.responses = Append(@, response),
                              !.trace = Append(@, "RESPOND"),
                              !.stage = "responded"]]

\* Lines 1358-1372 and 1393-1402: the selected chunk with the metadata of the
\* search hit it came from (position original_index of the results).
ContextChunk(pool, chunk) ==
    [SelectedChunk(chunk.original_index) EXCEPT
        !.text = [id |-> chunk.original_index,
                  length |-> pool[chunk.original_index].text.length]]

\* PromptEnhancer.buildEnhancedPrompt, lines 396-399: c.metadata.label =
\* String.fromCharCode(65 + i)
buildEnhancedPrompt(chunks) ==
    [k \in 1..Len(chunks) |->
        [chunks[k] EXCEPT !.metadata.label = fromCharCode(65 + (k - 1))]]

\* Lines 1481-1485: the excerpt-only answer, built from the query and the
\* first three chunks of the context, with the unavailability note.
RECURSIVE FallbackExcerpts(_, _)
FallbackExcerpts(chunks, k) ==
    IF k > Min(3, Len(chunks)) THEN << >>
    ELSE Digits(k) \o << ". From ", "document" >> \o Digits(chunks[k].metadata.document)
         \o << ": ", "text" >> \o Digits(chunks[k].text.id)
         \o (IF chunks[k].text.length > 300 THEN << "..." >> ELSE << >>)
         \o << "\n" >> \o FallbackExcerpts(chunks, k + 1)

FallbackNote == << "[", "Note: LLM service temporarily unavailable", "]" >>

FallbackAnswer(q, chunks) ==
    << "Based on the available documents: " >> \o q \o << "\n" >>
        \o FallbackExcerpts(chunks, 1) \o FallbackNote

\* Lines 1488-1495: every selected chunk, labelled A, B, C, ...
FallbackSources(chunks) ==
    [k \in 1..Len(chunks) |->
        [document |-> chunks[k].metadata.document,
         document_id |-> 0,
         page |-> chunks[k].metadata.page_number,
         section |-> OrElse(chunks[k].metadata.section, "N/A"),
         excerpt |-> Excerpt(chunks[k].text),
         label |-> fromCharCode(65 + (k - 1))]]

\* new RegExp(`\\[${label}\\]`, 'g') is a syntax error for the label "[": the
\* pattern \[[\] has an unterminated character class.
RegExpThrows(sources) == \E k \in 1..Len(sources) : sources[k].label = "["

\* The event loop runs one continuation at a time: a handler continues only
\* when no synchronous call is on the stack.
LoopFree_Always == TRUE
LoopFree == running = 0

At(r, stage) == requests[r].stage = stage /\ LoopFree

\* Lines 1253-1266: the body is read; without a query the request is refused,
\* otherwise the health probe of the generation service is sent.
Receive(r) ==
    /\ At(r, "received")
    /\ IF requests[r].query = << >>
       THEN Respond(r, ErrorResponse(400, "query_required"))
       ELSE requests' = [requests EXCEPT ![r].stage = "health"]
    /\ UNCHANGED running
    /\ UNCHANGED << selVars, attrVars, classVars, upVars >>

\* Lines 1264-1295: the probe returns; on failure the request ends with 503,
\* otherwise the embedding call is sent.
HealthDone(r) ==
    /\ At(r, "health")
    /\ IF ~requests[r].world.health
       THEN Respond(r, ErrorResponse(503, "llm_unavailable"))
       ELSE requests' = [requests EXCEPT ![r].stage = "embed"]
    /\ UNCHANGED running
    /\ UNCHANGED << selVars, attrVars, classVars, upVars >>

\* Lines 1297-1331: the embedding returns; the query is classified and the
\* vector search is sent.  A failed call is caught at line 1557.
EmbedDone(r) ==
    /\ At(r, "embed")
    /\ IF ~requests[r].world.embed
       THEN Respond(r, ErrorResponse(500, "failed"))
       ELSE requests' = [requests EXCEPT ![r] =
                [@ EXCEPT !.queryType = classifyQuery(requests[r].query),
                          !.trace = Append(@, "CLASSIFY"),
                          !.stage = "search"]]
    /\ UNCHANGED running
    /\ UNCHANGED << selVars, attrVars, classVars, upVars >>

NoCandidates_Never(results) == FALSE

\* Line 1337: searchResults.length === 0
NoCandidates(results) == Len(results) = 0

\* Lines 1333-1354: the search returns; without results the request ends
\* with the no-results answer, otherwise the chunk details are requested.
SearchDone(r) ==
    /\ At(r, "search")
    /\ LET results == Take(requests[r].world.search.result,
                           retrievalLimit(requests[r].queryType)) IN
       IF ~requests[r].world.search.ok
       THEN Respond(r, ErrorResponse(500, "failed"))
       ELSE IF NoCandidates(results)
       THEN Respond(r, NoResultsResponse(requests[r].query))
       ELSE requests' = [requests EXCEPT ![r] =
                [@ EXCEPT !.searchResults = results, !.stage = "db"]]
    /\ UNCHANGED running
    /\ UNCHANGED << selVars, attrVars, classVars, upVars >>

\* Lines 1354-1377 and enhancedChunking.js 107-111: the chunk details return;
\* selectOptimalChunks classifies the query again and enters the selector.
\* With no candidate the selector throws at its line 227 (caught at 1557).
DbDone(r) ==
    /\ At(r, "db")
    /\ IF ~requests[r].world.db
       THEN /\ Respond(r, ErrorResponse(500, "failed"))
            /\ UNCHANGED running
            /\ UNCHANGED selVars
       ELSE IF Len(requests[r].searchResults) = 0
       THEN /\ requests' = [requests EXCEPT ![r] =
                   [@ EXCEPT !.responses = Append(@, ErrorResponse(500, "failed")),
                             !.trace = @ \o << "SELECT", "RESPOND" >>,
                             !.stage = "responded"]]
            /\ UNCHANGED running
            /\ UNCHANGED selVars
       ELSE /\ requests' = [requests EXCEPT ![r] =
                   [@ EXCEPT !.trace = Append(@, "SELECT"), !.stage = "select"]]
            /\ running' = r
            /\ query' = SplitWords(LowerOf(requests[r].query))
            /\ vectorResults' = requests[r].searchResults
            /\ queryType' = classifyQuery(requests[r].query)
            /\ pc' = "start"
            /\ UNCHANGED << vectorSortedChunks, rerankScores, selectedChunks, tokensUsed,
                            rerankScoreSum, stopReason, chunksSkipped, chunksReranked,
                            chunksConsidered, currentPercentile, currentThreshold,
                            iterationNumber, chunksSelectedThisIteration, i, result >>
    /\ UNCHANGED << attrVars, classVars, upVars >>

\* The selector call returns: its locals are gone.
SelReturn ==
    /\ query' = << >>
    /\ vectorResults' = << >>
    /\ queryType' = "general"
    /\ vectorSortedChunks' = << >>
    /\ rerankScores' = << >>
    /\ selectedChunks' = << >>
    /\ tokensUsed' = 0
    /\ rerankScoreSum' = 0
    /\ stopReason' = StopReason("none", 0, 0)
    /\ chunksSkipped' = 0
    /\ chunksReranked' = 0
    /\ chunksConsidered' = 0
    /\ currentPercentile' = StartPercentile
    /\ currentThreshold' = 0
    /\ iterationNumber' = 0
    /\ chunksSelectedThisIteration' = 0
    /\ i' = 0
    /\ result' = NoResult
    /\ pc' = "idle"

\* Lines 1378-1441: the selection is taken from the result, the prompt is
\* assembled (which labels the chunks) and the completion call is sent.
SelectDone(r) ==
    /\ requests[r].stage = "select"
    /\ running = r
    /\ pc = "done"
    /\ LET context == [k \in 1..Len(result.selectedChunks) |->
                          ContextChunk(requests[r].searchResults, result.selectedChunks[k])]
       IN requests' = [requests EXCEPT ![r] =
                [@ EXCEPT !.selectedChunks = buildEnhancedPrompt(context),
                          !.trace = @ \o << "ASSEMBLE", "GENERATE" >>,
                          !.stage = "llm"]]
    /\ running' = 0
    /\ SelReturn
    /\ UNCHANGED << attrVars, classVars, upVars >>

\* Lines 1442-1471 and 1504-1555: the completion arrived; the answer is
\* parsed, attributed, renumbered and sent.
GeneratedResponse(q, t, results, chunks, content) ==
    LET parsed == parseLLMResponse(Trim(content))
        sources == buildLLMGuidedAttribution(chunks, parsed.sourcesUsed)
        enhancedAnswer == enhanceAnswerWithReferences(parsed.answer, sources)
    IN IF RegExpThrows(sources)
       THEN ErrorResponse(500, "failed")
       ELSE SuccessResponse(q, t, enhancedAnswer.enhancedAnswer,
                            Len(results), Len(chunks), enhancedAnswer.finalSources)

Generated(r) ==
    LET rq == requests[r] IN
    requests' = [requests EXCEPT ![r] =
            [@ EXCEPT !.responses = Append(@,
                          GeneratedResponse(rq.query, rq.queryType, rq.searchResults,
                                            rq.selectedChunks, rq.world.llm.content)),
                      !.trace = @ \o << "PARSE", "ATTRIBUTE", "RESPOND" >>,
                      !.stage = "responded"]]

\* Lines 1476-1500 and 1504-1555: the completion call failed; the answer is
\* built from the excerpts, every selected chunk becomes a source, and the
\* renumbering runs on that.  An exception there is caught at line 1557.
DegradedResponse(q, t, results, chunks) ==
    LET sources == FallbackSources(chunks)
        enhancedAnswer == enhanceAnswerWithReferences(FallbackAnswer(q, chunks), sources)
    IN IF RegExpThrows(sources)
       THEN ErrorResponse(500, "failed")
       ELSE SuccessResponse(q, t, enhancedAnswer.enhancedAnswer,
                            Len(results), Len(chunks), enhancedAnswer.finalSources)

Degraded(r) ==
    LET rq == requests[r] IN
    Respond(r, DegradedResponse(rq.query, rq.queryType, rq.searchResults, rq.selectedChunks))

\* Lines 1423-1555: the completion call returns or fails.
LlmDone(r) ==
    /\ At(r, "llm")
    /\ IF requests[r].world.llm.ok THEN Generated(r) ELSE Degraded(r)
    /\ UNCHANGED running
    /\ UNCHANGED << selVars, attrVars, classVars, upVars >>

ReqNext ==
    \/ \E r \in DOMAIN requests : Receive(r)
    \/ \E r \in DOMAIN requests : HealthDone(r)
    \/ \E r \in DOMAIN requests : EmbedDone(r)
    \/ \E r \in DOMAIN requests : SearchDone(r)
    \/ \E r \in DOMAIN requests : DbDone(r)
    \/ SelNext
    \/ \E r \in DOMAIN requests : SelectDone(r)
    \/ \E r \in DOMAIN requests : LlmDone(r)

\* One request, every failure point, pools of up to MaxWide candidates.
ReqSpec == ReqInit /\ [][ReqNext]_vars

\* Two requests in flight at once, interleaved at the await points.
ConcInit ==
    /\ requests \in
          [1..2 -> { NewRequest(q, w) :
                        q \in { DefinitionQuery, GeneralQuery },
                        w \in WorldsOver({ MixedPool, LongPool }, { CitingAnswer }) }]
    /\ running = 0
    /\ SelIdle
    /\ AttrIdle
    /\ ClassIdle
    /\ UploadIdle

ConcSpec == ConcInit /\ [][ReqNext]_vars

\* ------------------------------------- POST /api/upload-document-direct
\* The awaited call of an upload that fails, if any: one call at most.
Faults ==
    { "none", "exists", "write", "create", "extract", "embed", "put", "store",
      "complete", "log" }

\* File contents, by their SHA-256 hash; 0 stands for a request without file.
Contents == { 1, 2 }

\* An upload as it arrives: the file, the number of chunks its text gives,
\* and the call that will fail; filePath and documentId are null (FALSE, 0).
NewUpload(content, chunks, fault) ==
    [content |-> content, chunks |-> chunks, fault |-> fault,
     stage |-> "received", filePath |-> FALSE, documentId |-> 0,
     responses |-> << >>]

UploadInit ==
    /\ uploads \in
          [1..2 -> { NewUpload(c, n, f) : c \in Contents, n \in 0..MaxChunks, f \in Faults }
                   \cup { NewUpload(0, 0, "none") }]
    /\ disk = {}
    /\ documents = << >>
    /\ points = << >>
    /\ chunkRows = << >>
    /\ SelIdle
    /\ AttrIdle
    /\ ClassIdle
    /\ ReqIdle

UploadResponse(status, documentId) ==
    [status |-> status, success |-> status = 200, document_id |-> documentId]

\* res.json / res.status(..).json of the upload handler
UploadRespond(u, response) ==
    uploads' = [uploads EXCEPT ![u] =
                   [@ EXCEPT !.responses = Append(@, response), !.stage = "responded"]]

\* The awaited call of stage `stage` returns: it throws when it is the failing
\* call of the upload, and control goes to the catch block of line 1868.
Throws(u, stage) == uploads[u].fault = stage

ToCatch(u) == uploads' = [uploads EXCEPT ![u].stage = "catch"]

\* DocumentDatabase.documentExists: a row with this file_hash
documentExists(fileHash) == \E d \in DOMAIN documents : documents[d].file_hash = fileHash

\* Lines 1569-1590: the request is read, the hash computed and the duplicate
\* query sent.
UploadReceive(u) ==
    /\ uploads[u].stage = "received"
    /\ IF uploads[u].content = 0
       THEN UploadRespond(u, UploadResponse(400, 0))
       ELSE uploads' = [uploads EXCEPT ![u].stage = "exists"]
    /\ UNCHANGED << disk, documents, points, chunkRows >>
    /\ UNCHANGED nonUpVars

\* Lines 1590-1608: the duplicate query returns; a known hash is answered
\* with 409, otherwise the file path is chosen and the file write is sent.
UploadExistsDone(u) ==
    /\ uploads[u].stage = "exists"
    /\ IF Throws(u, "exists") THEN ToCatch(u)
       ELSE IF documentExists(uploads[u].content)
       THEN UploadRespond(u, UploadResponse(409, 0))
       ELSE uploads' = [uploads EXCEPT ![u] =
                           [@ EXCEPT !.filePath = TRUE, !.stage = "write"]]
    /\ UNCHANGED << disk, documents, points, chunkRows >>
    /\ UNCHANGED nonUpVars

\* Lines 1608-1621: the file is on disk; the row insert is sent.
UploadWriteDone(u) ==
    /\ uploads[u].stage = "write"
    /\ IF Throws(u, "write")
       THEN ToCatch(u) /\ UNCHANGED disk
       ELSE /\ disk' = disk \cup {u}
            /\ uploads' = [uploads EXCEPT ![u].stage = "create"]
    /\ UNCHANGED << documents, points, chunkRows >>
    /\ UNCHANGED nonUpVars

\* Lines 1621-1624 and DocumentDatabase.createDocument: the row is inserted
\* with processing_status 'processing'; documentId is its id.
UploadCreateDone(u) ==
    /\ uploads[u].stage = "create"
    /\ IF Throws(u, "create")
       THEN ToCatch(u) /\ UNCHANGED << documents, points, chunkRows >>
       ELSE /\ documents' = Append(documents,
                                   [file_hash |-> uploads[u].content,
                                    processing_status |-> "processing",
                                    upload |-> u])
            /\ points' = Append(points, 0)
            /\ chunkRows' = Append(chunkRows, 0)
            /\ uploads' = [uploads EXCEPT ![u] =
                              [@ EXCEPT !.documentId = Len(documents) + 1,
                                        !.stage = "extract"]]
    /\ UNCHANGED disk
    /\ UNCHANGED nonUpVars

\* Lines 1624-1699: the processing log, the text extraction and the chunking.
UploadExtractDone(u) ==
    /\ uploads[u].stage = "extract"
    /\ IF Throws(u, "extract") THEN ToCatch(u)
       ELSE uploads' = [uploads EXCEPT ![u].stage = "embed"]
    /\ UNCHANGED << disk, documents, points, chunkRows >>
    /\ UNCHANGED nonUpVars

\* Lines 1699-1803: the embedding batches.  A failed batch deletes the points
\* collected so far (none of them is in the store yet) and throws; no chunk
\* at all throws at line 1802.
UploadEmbedDone(u) ==
    /\ uploads[u].stage = "embed"
    /\ IF Throws(u, "embed") \/ uploads[u].chunks = 0 THEN ToCatch(u)
       ELSE uploads' = [uploads EXCEPT ![u].stage = "put"]
    /\ UNCHANGED << disk, documents, points, chunkRows >>
    /\ UNCHANGED nonUpVars

\* Lines 1807-1823: all points of the document are put into the vector store.
UploadPutDone(u) ==
    /\ uploads[u].stage = "put"
    /\ IF Throws(u, "put")
       THEN ToCatch(u) /\ UNCHANGED points
       ELSE /\ points' = [points EXCEPT ![uploads[u].documentId] = uploads[u].chunks]
            /\ uploads' = [uploads EXCEPT ![u].stage = "store"]
    /\ UNCHANGED << disk, documents, chunkRows >>
    /\ UNCHANGED nonUpVars

\* Lines 1826-1850 and DocumentDatabase.storeChunks: the chunk rows are
\* inserted in one transaction, rolled back as a whole on an error.
UploadStoreDone(u) ==
    /\ uploads[u].stage = "store"
    /\ IF Throws(u, "store")
       THEN ToCatch(u) /\ UNCHANGED chunkRows
       ELSE /\ chunkRows' = [chunkRows EXCEPT ![uploads[u].documentId] = uploads[u].chunks]
            /\ uploads' = [uploads EXCEPT ![u].stage = "complete"]
    /\ UNCHANGED << disk, documents, points >>
    /\ UNCHANGED nonUpVars

\* DocumentDatabase.updateDocumentStatus
updateDocumentStatus(documentId, status) ==
    documents' = [documents EXCEPT ![documentId].processing_status = status]

\* Line 1851: the document is marked 'completed'.
UploadCompleteDone(u) ==
    /\ uploads[u].stage = "complete"
    /\ IF Throws(u, "complete")
       THEN ToCatch(u) /\ UNCHANGED documents
       ELSE /\ updateDocumentStatus(uploads[u].documentId, "completed")
            /\ uploads' = [uploads EXCEPT ![u].stage = "log"]
    /\ UNCHANGED << disk, points, chunkRows >>
    /\ UNCHANGED nonUpVars

\* Lines 1853-1866: the last log entry is written and the success body sent.
UploadLogDone(u) ==
    /\ uploads[u].stage = "log"
    /\ IF Throws(u, "log") THEN ToCatch(u)
       ELSE UploadRespond(u, UploadResponse(200, uploads[u].documentId))
    /\ UNCHANGED << disk, documents, points, chunkRows >>
    /\ UNCHANGED nonUpVars

\* Lines 1868-1892: the catch block removes the file when a path was chosen,
\* marks the document 'failed' when its row exists, and answers with 500.
UploadCatchDone(u) ==
    /\ uploads[u].stage = "catch"
    /\ disk' = IF uploads[u].filePath THEN disk \ {u} ELSE disk
    /\ IF uploads[u].documentId # 0
       THEN updateDocumentStatus(uploads[u].documentId, "failed")
       ELSE UNCHANGED documents
    /\ UploadRespond(u, UploadResponse(500, uploads[u].documentId))
    /\ UNCHANGED << points, chunkRows >>
    /\ UNCHANGED nonUpVars

UploadNext ==
    \/ \E u \in DOMAIN uploads : UploadReceive(u)
    \/ \E u \in DOMAIN uploads : UploadExistsDone(u)
    \/ \E u \in DOMAIN uploads : UploadWriteDone(u)
    \/ \E u \in DOMAIN uploads : UploadCreateDone(u)
    \/ \E u \in DOMAIN uploads : UploadExtractDone(u)
    \/ \E u \in DOMAIN uploads : UploadEmbedDone(u)
    \/ \E u \in DOMAIN uploads : UploadPutDone(u)
    \/ \E u \in DOMAIN uploads : UploadStoreDone(u)
    \/ \E u \in DOMAIN uploads : UploadCompleteDone(u)
    \/ \E u \in DOMAIN uploads : UploadLogDone(u)
    \/ \E u \in DOMAIN uploads : UploadCatchDone(u)

\* Two uploads in flight at once, interleaved at the await points, each with
\* at most one failing call.
UploadSpec == UploadInit /\ [][UploadNext]_vars

\* ------------------------------------------------------- selector properties
\* The forced fallback ran: it is the only place that counts one more rerank
\* than there are candidates (line 343).
Forced == pc \in {"result", "done"} /\ chunksReranked = Len(vectorResults) + 1

PoolIndices == 1..Len(vectorResults)

IsMaxVectorScore(v) ==
    /\ \E k \in PoolIndices : vectorResults[k].vector_score = v
    /\ \A k \in PoolIndices : vectorResults[k].vector_score <= v

\* C1: for every non-empty candidate pool and every query type the returned
\* result has a non-empty selectedChunks.
C1_NonEmptySelection ==
    (pc = "done" /\ Len(vectorResults) > 0)
        => (Len(result.selectedChunks) > 0 /\ result.selectedCount > 0)

\* A finished call in which no candidate passes the vector gate.
C1_Witness ==
    /\ pc = "done"
    /\ Len(vectorResults) > 1
    /\ \A k \in PoolIndices : vectorResults[k].vector_score < 50
    /\ Len(result.selectedChunks) = 1

\* C2: in every result tokensUsed is at most the maxTokens of the resolved
\* query type, unless the result is the single chunk of the forced fallback.
C2_TokensWithinBudget ==
    pc = "done" =>
        \/ result.tokensUsed <= TypeConfig(queryType).maxTokens
        \/ (Forced /\ Len(result.selectedChunks) = 1)

\* A finished call whose gated scan filled the budget exactly with two chunks.
C2_Witness ==
    /\ pc = "done"
    /\ ~Forced
    /\ Len(result.selectedChunks) = 2
    /\ result.tokensUsed = TypeConfig(queryType).maxTokens

\* C3: once tokensUsed is at least minTokens, no step of the call admits a
\* chunk that brings tokensUsed above maxTokens.
C3_NoCrossingOnceMinimumMet ==
    [][ (tokensUsed >= TypeConfig(queryType).minTokens
            /\ Len(selectedChunks') > Len(selectedChunks))
        => tokensUsed' <= TypeConfig(queryType).maxTokens ]_vars

\* The scan stands at a candidate that passes both score gates and would cross
\* maxTokens while the minimum is met.
C3_Witness ==
    /\ pc = "for"
    /\ i < Len(vectorSortedChunks)
    /\ ~AlreadySelected(vectorSortedChunks[i + 1])
    /\ vectorSortedChunks[i + 1].vector_score >= 50
    /\ vectorSortedChunks[i + 1].rerank_score >= currentThreshold
    /\ tokensUsed >= TypeConfig(queryType).minTokens
    /\ tokensUsed + estimateTokenCount(vectorSortedChunks[i + 1].text)
            > TypeConfig(queryType).maxTokens

\* C4: when the gated scan admitted nothing, the result is exactly one chunk
\* and it is a candidate of the highest vector score.
C4_FallbackIsTopVectorChunk ==
    [][ /\ (pc = "ensure" /\ selectedChunks = << >>)
            => /\ Len(selectedChunks') = 1
               /\ selectedChunks'[1].original_index \in PoolIndices
               /\ vectorResults[selectedChunks'[1].original_index].vector_score
                      = selectedChunks'[1].vector_score
               /\ IsMaxVectorScore(selectedChunks'[1].vector_score)
        /\ pc = "result" => result'.selectedChunks = selectedChunks ]_vars

\* The fallback ran on a pool whose first candidate is not the best one.
C4_Witness ==
    /\ pc = "done"
    /\ Forced
    /\ Len(result.selectedChunks) = 1
    /\ Len(vectorResults) > 1
    /\ ~IsMaxVectorScore(vectorResults[1].vector_score)

\* Position of the call in its control flow; every step moves it forward.
SelRank ==
    LET n == Len(vectorResults) IN
    CASE pc = "start"  -> 0
      [] pc = "for"    -> 1 + iterationNumber * (n + 3) + i
      [] pc = "after"  -> 1 + iterationNumber * (n + 3) + n + 1
      [] pc = "while"  -> 1 + iterationNumber * (n + 3) + n + 2
      [] pc = "ensure" -> 1 + 21 * (n + 3)
      [] pc = "result" -> 2 + 21 * (n + 3)
      [] OTHER         -> 3 + 21 * (n + 3)

\* C5: the call terminates after at most 20 passes of its scan loop: the pass
\* counter never exceeds 20 and every step advances a bounded position, with
\* every rerank score being the lexical fallback score.
C5_TerminatesWithin20Passes ==
    /\ [](iterationNumber <= 20)
    /\ [][SelRank' > SelRank]_vars

\* A call that ran all 20 passes and returned.
C5_Witness ==
    /\ pc = "done"
    /\ iterationNumber = 20
    /\ \A k \in PoolIndices : vectorResults[k].rerank_score = << >>

\* C6: within one call the quality-gate percentile never decreases.
C6_PercentileMonotone == [][currentPercentile' >= currentPercentile]_vars

\* A pass that runs at a widened gate after an earlier pass admitted a chunk.
C6_Witness ==
    /\ pc = "for"
    /\ currentPercentile > 5
    /\ Len(selectedChunks) > 0

\* ---------------------------------------------------- attribution properties
CapitalLetters ==
    { "A", "B", "C", "D", "E", "F", "G", "H", "I", "J", "K", "L", "M",
      "N", "O", "P", "Q", "R", "S", "T", "U", "V", "W", "X", "Y", "Z" }

\* The positions of s where a bracketed single capital letter starts.
MarkerPositions(s) ==
    { p \in 1..Len(s) :
        p + 2 <= Len(s) /\ s[p] = "[" /\ s[p + 1] \in CapitalLetters /\ s[p + 2] = "]" }

CitedSet(s) == { s[p + 1] : p \in MarkerPositions(s) }

FirstPosition(s, label) ==
    CHOOSE p \in MarkerPositions(s) :
        /\ s[p + 1] = label
        /\ \A q \in MarkerPositions(s) : s[q + 1] = label => p <= q

\* list holds every label cited in s once, ordered by first appearance.
IsFirstAppearanceList(list, s) ==
    /\ \A j, k \in 1..Len(list) : j # k => list[j] # list[k]
    /\ { list[k] : k \in 1..Len(list) } = CitedSet(s)
    /\ \A j, k \in 1..Len(list) :
          j < k => FirstPosition(s, list[j]) < FirstPosition(s, list[k])

CitedInOrder(s) ==
    CHOOSE list \in [1..Cardinality(CitedSet(s)) -> CitedSet(s)] :
        IsFirstAppearanceList(list, s)

IndexIn(list, x) == CHOOSE k \in 1..Len(list) : list[k] = x

\* s with every marker of a label of `numbered` replaced, in one pass, by the
\* bracketed position of that label in `numbered`; everything else unchanged.
RECURSIVE SubstituteMarkers(_, _, _)
SubstituteMarkers(s, k, numbered) ==
    IF k > Len(s) THEN << >>
    ELSE IF k \in MarkerPositions(s) /\ \E j \in 1..Len(numbered) : numbered[j] = s[k + 1]
         THEN NumberRef(IndexIn(numbered, s[k + 1])) \o SubstituteMarkers(s, k + 3, numbered)
         ELSE << s[k] >> \o SubstituteMarkers(s, k + 1, numbered)

\* Some chunk of the labelled selection carries the label.
HasChunk(label) ==
    \E j \in 1..Len(promptChunks) : promptChunks[j].metadata.label = label

\* The final source describes the chunk that carries the label.
Describes(source, label) ==
    \E j \in 1..Len(promptChunks) :
        /\ promptChunks[j].metadata.label = label
        /\ source.document = promptChunks[j].metadata.document
        /\ source.document_id = promptChunks[j].metadata.db_document_id
        /\ source.excerpt.of = promptChunks[j].text.id
        /\ source.page = (IF promptChunks[j].metadata.page_number = ""
                          THEN "N/A" ELSE promptChunks[j].metadata.page_number)
        /\ source.section = (IF promptChunks[j].metadata.section = ""
                             THEN "N/A" ELSE promptChunks[j].metadata.section)

\* The answer is rewritten and sourced exactly for the labels of `numbered`.
RenumberedFor(numbered) ==
    /\ enhanced.enhancedAnswer = SubstituteMarkers(parsedResponse.answer, 1, numbered)
    /\ Len(enhanced.finalSources) = Len(numbered)
    /\ \A k \in 1..Len(numbered) :
          /\ enhanced.finalSources[k].reference = NumberRef(k)
          /\ Describes(enhanced.finalSources[k], numbered[k])

\* C7 as stated: every occurrence of the k-th distinct cited label becomes [k]
\* and finalSources[k] has reference [k] and describes that label's chunk, for
\* any answer and any labelled selection.
C7_Original ==
    apc = "done" => RenumberedFor(CitedInOrder(rawLLMResponse))

\* C7 amended: the numbering runs over the cited labels that were assigned to a
\* selected chunk, in order of first appearance: every occurrence of the k-th
\* of them becomes [k], finalSources[k] has reference [k] and describes its
\* chunk, and markers of labels assigned to no chunk stay as they are.
C7_RenumberResolvedLabels ==
    apc = "done" => RenumberedFor(SelectSeq(CitedInOrder(rawLLMResponse), HasChunk))

\* "[A]x[B][A]" with A and B assigned gives "[1]x[2][1]" and two sources.
C7_Witness ==
    /\ apc = "done"
    /\ rawLLMResponse = << "[", "A", "]", "x", "[", "B", "]", "[", "A", "]" >>
    /\ Len(promptChunks) = 2
    /\ enhanced.enhancedAnswer = << "[", "1", "]", "x", "[", "2", "]", "[", "1", "]" >>
    /\ Len(enhanced.finalSources) = 2
    /\ enhanced.finalSources[1].document = 1
    /\ enhanced.finalSources[2].document = 2

\* C8: sourcesUsed is the list of bracketed single capital letters occurring
\* in the answer, without duplicates, in order of first appearance.
C8_SourcesUsedFirstAppearance ==
    apc \in {"attribute", "enhance", "done"}
        => IsFirstAppearanceList(parsedResponse.sourcesUsed, rawLLMResponse)

\* An answer citing B, then A, then B again.
C8_Witness ==
    /\ apc = "attribute"
    /\ parsedResponse.citations_found = 3
    /\ parsedResponse.sourcesUsed = << "B", "A" >>

StartsWithAnswerLabel(s) ==
    /\ Len(s) >= 7
    /\ s[1] \in {"A", "a"} /\ s[2] \in {"N", "n"} /\ s[3] \in {"S", "s"}
    /\ s[4] \in {"W", "w"} /\ s[5] \in {"E", "e"} /\ s[6] \in {"R", "r"}
    /\ s[7] = ":"

Blank(c) == c \in {" ", "\t", "\n"}

\* out is s without its leading "ANSWER:" label (if it has one) and without
\* the white space around what remains.
IsStripped(s, out) ==
    \E a, b \in 0..Len(s) :
        /\ a + Len(out) + b = Len(s)
        /\ out = SubSeq(s, a + 1, a + Len(out))
        /\ \A k \in (Len(s) - b + 1)..Len(s) : Blank(s[k])
        /\ IF StartsWithAnswerLabel(s)
           THEN a >= 7 /\ \A k \in 8..a : Blank(s[k])
           ELSE \A k \in 1..a : Blank(s[k])
        /\ out # << >> => ~Blank(out[1]) /\ ~Blank(out[Len(out)])

\* C9 as stated: an answer without markers gives no sources and comes back
\* byte-identical.
C9_Original ==
    (apc = "done" /\ MarkerPositions(rawLLMResponse) = {})
        => /\ parsedResponse.sourcesUsed = << >>
           /\ enhanced.finalSources = << >>
           /\ enhanced.enhancedAnswer = rawLLMResponse

\* C9 amended: an answer without markers gives no sources and comes back as
\* the input without its optional leading "ANSWER:" label and surrounding
\* white space, byte-identical when the input has neither.
C9_UnmarkedAnswerOnlyStripped ==
    (apc = "done" /\ MarkerPositions(rawLLMResponse) = {})
        => /\ parsedResponse.sourcesUsed = << >>
           /\ enhanced.finalSources = << >>
           /\ IsStripped(rawLLMResponse, enhanced.enhancedAnswer)
           /\ (/\ ~StartsWithAnswerLabel(rawLLMResponse)
               /\ rawLLMResponse # << >>
               /\ ~Blank(rawLLMResponse[1])
               /\ ~Blank(rawLLMResponse[Len(rawLLMResponse)]))
                  => enhanced.enhancedAnswer = rawLLMResponse

\* An unmarked answer with the label in front: only the text after it is returned.
C9_Witness ==
    /\ apc = "done"
    /\ MarkerPositions(rawLLMResponse) = {}
    /\ StartsWithAnswerLabel(rawLLMResponse)
    /\ enhanced.enhancedAnswer = << "x", " ", "[", "a", "]" >>
    /\ enhanced.finalSources = << >>

\* C10: when a cited label matches no selected chunk only that label is
\* skipped: the other cited labels each yield a source, in first-appearance
\* order, and the response is still built.
C10_UnresolvedLabelSkipped ==
    (/\ apc \in {"enhance", "done"}
     /\ \E k \in 1..Len(parsedResponse.sourcesUsed) : ~HasChunk(parsedResponse.sourcesUsed[k]))
        => LET resolved == SelectSeq(parsedResponse.sourcesUsed, HasChunk) IN
           /\ Len(llmGuidedSources) = Len(resolved)
           /\ \A k \in 1..Len(resolved) :
                 /\ llmGuidedSources[k].label = resolved[k]
                 /\ Describes(llmGuidedSources[k], resolved[k])
           /\ apc = "done" => Len(enhanced.finalSources) = Len(resolved)

\* B is cited first and has no chunk; A, cited after it, still gets its source.
C10_Witness ==
    /\ apc = "done"
    /\ Len(promptChunks) = 1
    /\ parsedResponse.sourcesUsed = << "B", "A" >>
    /\ Len(enhanced.finalSources) = 1
    /\ enhanced.finalSources[1].document = 1
    /\ enhanced.enhancedAnswer = << "[", "B", "]", "x", "[", "1", "]" >>

\* ------------------------------------------- selector properties, continued
\* The candidate the scan is at, and the three admission conditions in the
\* terms of the specification.
Visited == vectorSortedChunks[i + 1]
Visiting == pc = "for" /\ i < Len(vectorSortedChunks)
NotYetSelected ==
    \A k \in 1..Len(selectedChunks) : selectedChunks[k].original_index # Visited.original_index
ScoresPass == Visited.vector_score >= 50 /\ Visited.rerank_score >= currentThreshold
Fits == tokensUsed + ((Visited.text.length + 3) \div 4) <= TypeConfig(queryType).maxTokens
LastPassNearlyFull ==
    chunksSelectedThisIteration > 0 /\ tokensUsed >= TypeConfig(queryType).maxTokens - 100

C19_AdmittedIffGatesPass ==
    [][Visiting =>
          /\ selectedChunks' # selectedChunks
                => NotYetSelected /\ ScoresPass /\ Fits
          /\ NotYetSelected /\ ScoresPass /\ Fits
                => selectedChunks' = Append(selectedChunks, Visited)]_vars

\* A second chunk is admitted in a pass after the first one.
C19_Witness ==
    /\ pc \in {"for", "after"}
    /\ Len(selectedChunks) = 2
    /\ chunksSelectedThisIteration = 1
    /\ iterationNumber > 1
    /\ chunksSkipped > 0

\* C20: a visited candidate that passes both score gates but does not fit is
\* skipped while tokensUsed < minTokens, and the pass goes on to the next
\* candidate; with tokensUsed >= minTokens it ends the selection (the percentile
\* leaves the range, and nothing is admitted by the scan after that).
C20_OverBudgetSkipOrStop ==
    /\ [][Visiting /\ NotYetSelected /\ ScoresPass /\ ~Fits =>
            IF tokensUsed < TypeConfig(queryType).minTokens
            THEN /\ selectedChunks' = selectedChunks
                 /\ i' = i + 1
                 /\ pc' = IF i + 1 < Len(vectorSortedChunks) THEN "for" ELSE "after"
                 /\ currentPercentile' = currentPercentile
                 /\ stopReason' = stopReason
            ELSE /\ selectedChunks' = selectedChunks
                 /\ pc' = "after"
                 /\ currentPercentile' > 100
                 /\ stopReason'.kind = "token_budget_exceeds"]_vars
    /\ [][currentPercentile > 100 => pc' # "for"]_vars

\* A long candidate was skipped and the smaller one after it admitted in the
\* same pass.
C20_Witness ==
    /\ pc \in {"for", "after"}
    /\ i = 2
    /\ Len(selectedChunks) = 1
    /\ chunksSelectedThisIteration = 1
    /\ vectorSortedChunks[1].vector_score >= 50
    /\ vectorSortedChunks[1].rerank_score >= currentThreshold
    /\ (vectorSortedChunks[1].text.length + 3) \div 4 > TypeConfig(queryType).maxTokens
    /\ selectedChunks[1].original_index = vectorSortedChunks[2].original_index

\* -------------------------------------------------- classification properties
\* The rules in the order of the specification, and the tag of each.
RuleOrder == << "definition", "specific_section", "list", "yes_no", "procedure" >>
RuleMatches(n, q) ==
    CASE n = 1 -> DefinitionRule(q)
      [] n = 2 -> SectionRule(q)
      [] n = 3 -> ListRule(q)
      [] n = 4 -> YesNoRule(q)
      [] n = 5 -> ProcedureRule(q)
MatchingRules(q) == { n \in 1..5 : RuleMatches(n, q) }

\* C14: classifyQuery returns the tag of the earliest rule, in the order
\* definition, specific_section, list, yes_no, procedure, that matches the
\* query, and 'general' when none matches.
C14_FirstMatchingRuleWins ==
    classified # "" =>
        IF MatchingRules(queryText) = {}
        THEN classified = "general"
        ELSE \E n \in MatchingRules(queryText) :
                /\ \A m \in MatchingRules(queryText) : n <= m
                /\ classified = RuleOrder[n]

\* "Is all exit" matches the list rule and the yes_no rule and is a 'list' query.
C14_Witness ==
    /\ queryText = << "I", "s", " ", "a", "l", "l", " ", "e", "x", "i", "t" >>
    /\ MatchingRules(queryText) = {3, 4}
    /\ classified = "list"

\* ------------------------------------------------------- request properties
Responded(r) == requests[r].stage = "responded"
Has(r, stage) == \E k \in 1..Len(requests[r].trace) : requests[r].trace[k] = stage

\* Retrieval works for the request and finds candidates.
PoolNonEmpty(r) ==
    /\ requests[r].query # << >>
    /\ requests[r].world.embed
    /\ requests[r].world.search.ok
    /\ requests[r].world.search.result # << >>
    /\ requests[r].world.db

GenerationUnavailable(r) == ~requests[r].world.health \/ ~requests[r].world.llm.ok

EndsWith(s, suffix) ==
    Len(s) >= Len(suffix) /\ SubSeq(s, Len(s) - Len(suffix) + 1, Len(s)) = suffix

\* The degraded answer: a success body with the excerpt text and its note,
\* and one source per selected chunk.
IsDegradedResponse(response) ==
    /\ response.success
    /\ response.kind = "success"
    /\ EndsWith(response.answer, FallbackNote)
    /\ Len(response.sources) = response.chunks_used
    /\ response.chunks_used >= 1

\* C11 (as stated): a request with a non-empty candidate pool whose generation
\* service is unavailable, at the health probe or at the completion call, ends
\* with the degraded success response and never with an error response.
C11_DegradedWhenGenerationUnavailable ==
    \A r \in DOMAIN requests :
        Responded(r) /\ PoolNonEmpty(r) /\ GenerationUnavailable(r)
            => /\ Len(requests[r].responses) = 1
               /\ IsDegradedResponse(requests[r].responses[1])

\* C12: a request whose vector search returns no candidate ends with the
\* "no relevant information" answer with empty sources, and neither the
\* selector nor the prompt assembler nor the completion call is invoked for it.
ZeroCandidates(r) ==
    /\ requests[r].query # << >>
    /\ requests[r].world.health
    /\ requests[r].world.embed
    /\ requests[r].world.search.ok
    /\ requests[r].world.search.result = << >>

C12_NoCandidatesNoSelection ==
    \A r \in DOMAIN requests :
        ZeroCandidates(r)
            => /\ ~Has(r, "SELECT") /\ ~Has(r, "ASSEMBLE") /\ ~Has(r, "GENERATE")
               /\ running # r
               /\ requests[r].stage \in {"received", "health", "embed", "search", "responded"}
               /\ Responded(r)
                    => /\ Len(requests[r].responses) = 1
                       /\ requests[r].responses[1].kind = "no_results"
                       /\ requests[r].responses[1].success
                       /\ requests[r].responses[1].answer = NoResultsText
                       /\ requests[r].responses[1].sources = << >>

C12_Witness ==
    \E r \in DOMAIN requests :
        /\ ZeroCandidates(r)
        /\ Responded(r)
        /\ requests[r].trace = << "CLASSIFY", "RESPOND" >>
        /\ requests[r].responses[1].kind = "no_results"

\* C13 (as stated): once the prompt is assembled, the i-th selected chunk
\* carries the i-th uppercase letter, so every label is one of A-Z and no two
\* chunks of the request share one.
C13_LabelsAreDistinctLetters ==
    \A r \in DOMAIN requests :
        LET chunks == requests[r].selectedChunks IN
        /\ \A k \in 1..Len(chunks) :
              k <= 26 /\ chunks[k].metadata.label = UpperLetters[Min(k, 26)]
        /\ \A j, k \in 1..Len(chunks) :
              j # k => chunks[j].metadata.label # chunks[k].metadata.label

\* C18 (as stated): a request with candidates selects between 1 and 15 chunks.
C18_BetweenOneAndFifteenChunks ==
    \A r \in DOMAIN requests :
        Has(r, "ASSEMBLE")
            => Len(requests[r].selectedChunks) >= 1 /\ Len(requests[r].selectedChunks) <= 15

\* The stages of a request in the order of the specification.
StageOrder == << "CLASSIFY", "SELECT", "ASSEMBLE", "GENERATE", "PARSE", "ATTRIBUTE", "RESPOND" >>
StageRank(stage) == CHOOSE n \in 1..Len(StageOrder) : StageOrder[n] = stage

\* C15: the stages a request goes through are taken in the order CLASSIFY,
\* SELECT, ASSEMBLE, GENERATE, PARSE, ATTRIBUTE, RESPOND, each at most once;
\* the completion call is sent only after the selector has returned and the
\* prompt is assembled; parsing and attribution happen only when the completion
\* call succeeded; a request never has two responses and a finished one has
\* exactly one; a request without failure goes through all seven stages.
C15_StagesInOrderOneResponse ==
    \A r \in DOMAIN requests :
        LET trace == requests[r].trace IN
        /\ \A j, k \in 1..Len(trace) :
              j < k => StageRank(trace[j]) < StageRank(trace[k])
        /\ Has(r, "GENERATE")
              => /\ Has(r, "SELECT") /\ Has(r, "ASSEMBLE")
                 /\ running # r
                 /\ Len(requests[r].selectedChunks) >= 1
                 /\ \A k \in 1..Len(requests[r].selectedChunks) :
                       requests[r].selectedChunks[k].metadata.label # ""
        /\ Has(r, "PARSE") \/ Has(r, "ATTRIBUTE")
              => /\ Has(r, "GENERATE") /\ Has(r, "PARSE") /\ Has(r, "ATTRIBUTE")
                 /\ requests[r].world.llm.ok
        /\ Len(requests[r].responses) <= 1
        /\ Responded(r) <=> Len(requests[r].responses) = 1
        /\ Responded(r) <=> Has(r, "RESPOND")
        /\ Responded(r) /\ PoolNonEmpty(r) /\ ~GenerationUnavailable(r)
              => trace = StageOrder

\* A request that went through the seven stages and was answered.
C15_Witness ==
    \E r \in DOMAIN requests :
        /\ requests[r].trace = StageOrder
        /\ Len(requests[r].responses) = 1
        /\ requests[r].responses[1].kind = "success"
        /\ Len(requests[r].responses[1].sources) = 2

\* ------------------------------------------------ one request taken by itself
\* The selector as a function of its arguments.  One pass of the for loop of
\* lines 238-309 from position k of the vector order; `stop` is the break of
\* line 287.
RECURSIVE ScanPass(_, _, _, _, _)
ScanPass(sorted, k, threshold, config, acc) ==
    IF k > Len(sorted) THEN acc
    ELSE LET chunk == sorted[k]
             tokens == estimateTokenCount(chunk.text)
         IN IF \E j \in 1..Len(acc.selected) :
                    acc.selected[j].original_index = chunk.original_index
            THEN ScanPass(sorted, k + 1, threshold, config, acc)
            ELSE IF chunk.vector_score < VECTOR_THRESHOLD \/ chunk.rerank_score < threshold
            THEN ScanPass(sorted, k + 1, threshold, config, acc)
            ELSE IF acc.tokens + tokens > config.maxTokens
            THEN IF acc.tokens >= config.minTokens
                 THEN [acc EXCEPT !.stop = TRUE]
                 ELSE ScanPass(sorted, k + 1, threshold, config, acc)
            ELSE ScanPass(sorted, k + 1, threshold, config,
                          [acc EXCEPT !.selected = Append(@, chunk),
                                      !.tokens = @ + tokens,
                                      !.admitted = @ + 1])

\* The while loop of lines 230-334: the chunks admitted by the gated scan.
RECURSIVE GatedScan(_, _, _, _, _, _, _, _)
GatedScan(sorted, scores, config, percentile, threshold, iteration, selected, tokens) ==
    IF ~(tokens < config.maxTokens /\ percentile <= 100) THEN selected
    ELSE LET pass == ScanPass(sorted, 1, threshold, config,
                              [selected |-> selected, tokens |-> tokens,
                               admitted |-> 0, stop |-> FALSE])
             expand == pass.admitted = 0 /\ pass.tokens < config.maxTokens
             stopped == IF pass.stop THEN 101 ELSE percentile
             widened == IF expand THEN stopped + percentileStep ELSE stopped
         IN IF \/ pass.admitted > 0 /\ pass.tokens >= config.maxTokens - NearlyFullMargin
               \/ iteration + 1 >= MaxIterations
            THEN pass.selected
            ELSE GatedScan(sorted, scores, config, widened,
                           IF expand /\ widened <= 100
                           THEN getPercentileThreshold(scores, widened)
                           ELSE threshold,
                           iteration + 1, pass.selected, pass.tokens)

\* selectChunksWithTokenBudget(query, vectorResults, queryType).selectedChunks
selectChunksWithTokenBudget(q, pool, t) ==
    LET all == AllRerankedChunks(q, pool)
        sorted == VectorSort(all)
        scores == RerankScoresOf(all)
        gated == GatedScan(sorted, scores, TypeConfig(t), StartPercentile,
                           getPercentileThreshold(scores, StartPercentile), 0, << >>, 0)
    IN IF Len(gated) = 0 /\ Len(sorted) > 0
       THEN << [sorted[1] EXCEPT !.rerank_score =
                    IF @ = 0 THEN simulateRerankScore(q, sorted[1].text) ELSE @] >>
       ELSE gated

\* selectOptimalChunks(query, documentsForReranking).chunks, lines 107-111
selectOptimalChunks(q, pool) ==
    selectChunksWithTokenBudget(SplitWords(LowerOf(q)), pool, classifyQuery(q))

\* The response of POST /api/query as a function of the request and of what
\* the collaborators answer to it (lines 1252-1566 read top to bottom).
handleQuery(q, w) ==
    LET t == classifyQuery(q)
        results == Take(w.search.result, retrievalLimit(t))
        selected == selectOptimalChunks(q, results)
        chunks == buildEnhancedPrompt([k \in 1..Len(selected) |->
                                          ContextChunk(results, selected[k])])
    IN IF q = << >> THEN ErrorResponse(400, "query_required")
       ELSE IF ~w.health THEN ErrorResponse(503, "llm_unavailable")
       ELSE IF ~w.embed \/ ~w.search.ok THEN ErrorResponse(500, "failed")
       ELSE IF NoCandidates(results) THEN NoResultsResponse(q)
       ELSE IF ~w.db THEN ErrorResponse(500, "failed")
       ELSE IF w.llm.ok THEN GeneratedResponse(q, t, results, chunks, w.llm.content)
       ELSE DegradedResponse(q, t, results, chunks)

\* The selector machine and the selector function agree.
SelectorAgrees ==
    pc = "done" => result.selectedChunks = selectChunksWithTokenBudget(query, vectorResults, queryType)

\* The labelled selection of a request taken by itself.
selectionOf(q, results) ==
    LET selected == selectOptimalChunks(q, results) IN
    buildEnhancedPrompt([k \in 1..Len(selected) |-> ContextChunk(results, selected[k])])

\* C16: two requests in flight at once, interleaved at every await point, do
\* not affect each other: a step of one request changes nothing of the other;
\* the selection a request sends to the completion call and the response it
\* gets are the ones it has when it is the only request, functions of its own
\* body and of what the collaborators answered to it; a sent response is
\* final; the selector call on the stack belongs to exactly one request and
\* works on that request's query and candidates; and between calls nothing of
\* the selector's state survives.
C16_ConcurrentRequestsIndependent ==
    /\ [][\A r \in DOMAIN requests :
            requests'[r] # requests[r]
              => /\ \A s \in DOMAIN requests : s # r => requests'[s] = requests[s]
                 /\ ~Responded(r)
                 /\ requests'[r].query = requests[r].query
                 /\ requests'[r].world = requests[r].world
                 /\ requests'[r].stage = "llm"
                       => requests'[r].selectedChunks
                             = selectionOf(requests[r].query, requests[r].searchResults)
                 /\ requests'[r].stage = "responded"
                       => requests'[r].responses
                             = << handleQuery(requests[r].query, requests[r].world) >>]_vars
    /\ [](\A r \in DOMAIN requests :
            requests[r].stage = "select"
                  => /\ running = r
                     /\ query = SplitWords(LowerOf(requests[r].query))
                     /\ vectorResults = requests[r].searchResults
                     /\ queryType = requests[r].queryType)
    /\ [](running # 0 => requests[running].stage = "select")
    /\ [](running = 0 => SelIdle)

\* One request waits for its completion call while the selector runs for the
\* other, a different query over a different pool.
C16_Witness ==
    /\ DOMAIN requests = 1..2
    /\ requests[1].stage = "llm"
    /\ Len(requests[1].selectedChunks) >= 2
    /\ running = 2
    /\ pc = "for"
    /\ Len(selectedChunks) >= 1
    /\ requests[2].query # requests[1].query
    /\ requests[2].searchResults # requests[1].searchResults

\* ----------------------------------------- selector properties, third part
\* The pass was broken off by the budget stop of line 287, which leaves the
\* percentile at 101 so that no further pass runs.
BrokenOff == currentPercentile = 101

InResult(k) ==
    \E j \in 1..Len(result.selectedChunks) : result.selectedChunks[j].original_index = k

\* C25: a call that returns with tokensUsed < minTokens leaves no unselected
\* candidate that has a vector score of at least 0.5 and whose token estimate
\* fits into maxTokens - tokensUsed.
C25_MinimumMissedOnlyWhenNothingFits ==
    (pc = "done" /\ result.tokensUsed < TypeConfig(queryType).minTokens)
        => \A k \in 1..Len(vectorResults) :
              ~InResult(k)
                => ~(/\ vectorResults[k].vector_score >= 50
                     /\ estimateTokenCount(vectorResults[k].text)
                            <= TypeConfig(queryType).maxTokens - result.tokensUsed)

\* C22: the scan loop is left only when tokensUsed has reached maxTokens with
\* minTokens satisfied, when the percentile is past 100 (by widening, or set
\* to 101 by the budget stop), or when 20 passes have run.
C22_LoopStopsOnlyForThreeCauses ==
    [][ (pc \in {"while", "after"} /\ pc' = "ensure")
            => \/ /\ tokensUsed' >= TypeConfig(queryType).maxTokens
                  /\ tokensUsed' >= TypeConfig(queryType).minTokens
               \/ currentPercentile' > 100
               \/ iterationNumber' >= 20 ]_vars

\* The chunks admitted so far in the running pass: the last
\* chunksSelectedThisIteration entries of selectedChunks.
AdmittedThisPass ==
    { selectedChunks[k] :
        k \in (Len(selectedChunks) - chunksSelectedThisIteration + 1)..Len(selectedChunks) }

\* C23: from the start of the first pass the scan list holds every candidate
\* once, in descending vector-score order whatever the rerank scores are;
\* within a pass the positions are visited one after the other from the top;
\* selectedChunks changes only by appending the visited chunk (or, empty after
\* the loop, by the forced chunk), so chunks of an earlier pass precede those
\* of a later pass; and every chunk admitted earlier in the same pass has a
\* vector score at least that of the chunk being admitted.
C23_VisitedByVectorAdmissionOrder ==
    /\ [](pc # "start" /\ pc # "idle"
            => /\ Len(vectorSortedChunks) = Len(vectorResults)
               /\ \A k \in 1..Len(vectorResults) :
                     \E j \in 1..Len(vectorSortedChunks) :
                        /\ vectorSortedChunks[j].original_index = k
                        /\ vectorSortedChunks[j].vector_score = vectorResults[k].vector_score
               /\ \A j, k \in 1..Len(vectorSortedChunks) :
                     j < k => vectorSortedChunks[j].vector_score
                                 >= vectorSortedChunks[k].vector_score)
    /\ [][ /\ (pc = "for" /\ pc' = "for") => i' = i + 1
           /\ (pc = "for" /\ selectedChunks' # selectedChunks)
                => /\ selectedChunks' = Append(selectedChunks, vectorSortedChunks[i + 1])
                   /\ \A c \in AdmittedThisPass :
                         c.vector_score >= vectorSortedChunks[i + 1].vector_score
           /\ (pc \notin {"for", "start", "done"} /\ selectedChunks' # selectedChunks)
                => (pc = "ensure" /\ selectedChunks = << >>) ]_vars

\* A returned selection of three chunks whose first has a lower vector score
\* than its second: it was admitted in an earlier pass.
C23_Witness ==
    /\ pc = "done"
    /\ Len(result.selectedChunks) = 3
    /\ result.selectedChunks[1].vector_score < result.selectedChunks[2].vector_score
    /\ result.selectedChunks[2].vector_score >= result.selectedChunks[3].vector_score

NoCandidateTwice(chunks) ==
    \A j, k \in 1..Len(chunks) :
        j # k => chunks[j].original_index # chunks[k].original_index

\* C27: at every point of a call, and in its result, selectedChunks holds no
\* candidate (position of the input) twice, whatever the number of passes and
\* with the forced fallback.
C27_NoCandidateSelectedTwice ==
    /\ NoCandidateTwice(selectedChunks)
    /\ NoCandidateTwice(result.selectedChunks)
    /\ \A k \in 1..Len(selectedChunks) :
          selectedChunks[k].original_index \in 1..Len(vectorResults)

\* A call of at least three passes that returned all three candidates, two
\* of them equal in content; later passes went over chunks admitted before.
C27_Witness ==
    /\ pc = "done"
    /\ iterationNumber >= 3
    /\ Len(result.selectedChunks) = 3
    /\ vectorResults[1] = vectorResults[2]
    /\ chunksConsidered > 3

\* The call was ended by the budget stop of lines 281-288: only that stop
\* sets the percentile to 101 (106 after the widening of line 314).
EndedByBudgetStop == currentPercentile \in {101, 106}

\* C26: a call ended by a gate-passing candidate that would exceed maxTokens
\* while tokensUsed >= minTokens returns a stopReason naming the token budget,
\* and stopReason 'exhausted_all_percentiles' is returned only by a call that
\* ran a pass at percentile 100.
C26_StopReasonNamesTheCause ==
    pc = "done"
        => /\ EndedByBudgetStop => result.stopReason.kind = "token_budget_exceeds"
           /\ result.stopReason.kind = "exhausted_all_percentiles"
                 => currentPercentile = 105

\* The score the claim gives a chunk: the one it arrived with, and the
\* lexical-overlap score only when it arrived with none.
ClaimedScore(chunk) ==
    LET given == vectorResults[chunk.original_index] IN
    IF given.rerank_score = << >>
    THEN simulateRerankScore(query, given.text)
    ELSE given.rerank_score[1]

\* C28: a candidate that arrives with a rerank score keeps exactly that score,
\* in the list the quality gate reads and in the result, for every value of
\* the score; the lexical-overlap score is used only for candidates without one.
C28_GivenRerankScoreIsKept ==
    (pc # "start" /\ pc # "idle")
        => /\ \A j \in 1..Len(vectorSortedChunks) :
                vectorSortedChunks[j].rerank_score = ClaimedScore(vectorSortedChunks[j])
           /\ \A j \in 1..Len(result.selectedChunks) :
                result.selectedChunks[j].rerank_score = ClaimedScore(result.selectedChunks[j])

\* The completion call of the request failed after a non-empty selection.
CompletionFailed(r) ==
    /\ PoolNonEmpty(r)
    /\ requests[r].world.health
    /\ ~requests[r].world.llm.ok

\* Number of excerpt items ("k. From ...") in an answer.
ExcerptCount(answer) == Cardinality({ k \in 1..Len(answer) : answer[k] = ". From " })

\* C24: when the completion call fails after a non-empty selection of any
\* size n, the response is successful, its answer holds the excerpts of the
\* first min(3, n) selected chunks followed by the unavailability note, and its
\* sources are one per selected chunk, in selection order, with the references
\* [1]..[n].
C24_DegradedAnswerForAnySelection ==
    \A r \in DOMAIN requests :
        (Responded(r) /\ CompletionFailed(r))
            => LET response == requests[r].responses[1]
                   chunks == requests[r].selectedChunks
               IN /\ response.success
                  /\ response.status = 200
                  /\ EndsWith(response.answer, FallbackNote)
                  /\ ExcerptCount(response.answer) = Min(3, Len(chunks))
                  /\ Len(response.sources) = Len(chunks)
                  /\ \A k \in 1..Len(chunks) :
                        /\ response.sources[k].reference = NumberRef(k)
                        /\ response.sources[k].document = chunks[k].metadata.document
                        /\ response.sources[k].excerpt.of = chunks[k].text.id

\* -------------------------------------------------------- upload properties
\* C29: no two document rows have the same file hash, and an upload writes
\* its file, creates its row and stores its vectors only while no row with
\* its hash exists; the upload that finds the row is answered with 409 and
\* has written nothing, also when the two uploads interleave between the
\* duplicate check and the row creation.
C29_DuplicateContentRejected ==
    /\ [](\A d, e \in DOMAIN documents :
            d # e => documents[d].file_hash # documents[e].file_hash)
    /\ [](\A u \in DOMAIN uploads :
            (uploads[u].responses # << >> /\ uploads[u].responses[1].status = 409)
                => ~uploads[u].filePath /\ uploads[u].documentId = 0 /\ u \notin disk)
    /\ [][\A u \in DOMAIN uploads :
            (u \in disk' \ disk \/ uploads'[u].documentId # uploads[u].documentId)
                => ~documentExists(uploads[u].content)]_vars

\* An upload that failed after its document row was created has been answered.
FailedAfterCreate(u) ==
    /\ uploads[u].stage = "responded"
    /\ uploads[u].responses[1].status = 500
    /\ uploads[u].documentId # 0

\* C30: an upload that fails after its document row was created leaves the
\* document in status 'failed', its file removed from the disk and none of its
\* vectors in the vector store; and a document is marked 'completed' only with
\* its vectors and all its chunk rows stored.
C30_FailedUploadLeavesNothing ==
    /\ [](\A u \in DOMAIN uploads :
            FailedAfterCreate(u)
                => /\ documents[uploads[u].documentId].processing_status = "failed"
                   /\ u \notin disk
                   /\ points[uploads[u].documentId] = 0)
    /\ [][\A d \in DOMAIN documents :
            (documents'[d].processing_status = "completed"
                /\ documents[d].processing_status # "completed")
              => /\ points[d] = uploads[documents[d].upload].chunks
                 /\ chunkRows[d] = uploads[documents[d].upload].chunks
                 /\ uploads[documents[d].upload].chunks >= 1]_vars

====
